---- MODULE Spec2Model ----
(***************************************************************************)
(* Model of the synthetic event-data generators data.py and v2_data.py     *)
(* and of the assistant main.py.  Of the generators:                       *)
(* the registration allocator (generate_registrations), the ticket         *)
(* reconciliation step of main, the derived stages (generate_payments,     *)
(* generate_notifications, generate_feedback, generate_waitlists) and the  *)
(* sinks of the two main functions (the tables and csv files of data.py,   *)
(* the SQL file of v2_data.py).                                            *)
(*                                                                         *)
(* Spec runs main from the call of generate_registrations on; FairSpec     *)
(* adds weak fairness; ScenarioSpec adds the example of the specification. *)
(* DerivedSpec, NotifySpec, FeedbackSpec and WaitlistSpec each run one     *)
(* derived stage on every short registration list.  SinkSpec and FreshSpec *)
(* run data.py main twice with its sinks, SqlSpec runs v2_data.py main     *)
(* with its statement list; in these three the loop of                     *)
(* generate_registrations is one step.  SeedSpec runs generate_users and   *)
(* generate_events twice under the same seed, TicketSpec runs              *)
(* generate_tickets, AppSpec runs a session of main.py: get_db_schema with *)
(* its cache file and the question loop.                                   *)
(*                                                                         *)
(* Calls to random.* are nondeterministic choices (\E).  Values supplied   *)
(* by Faker (names, timestamps, uuids) and the decorative random fields    *)
(* of a record (payment_method, notification type, waitlist status) are    *)
(* not part of any record of the model.                                    *)
(* Money is counted in cents: a price is round(uniform(..), 2).            *)
(***************************************************************************)
EXTENDS Integers, Sequences, FiniteSets, TLC

\* ------------------------------------------------------------------ bounds
\* desired_count is 2500 in the sources; the model runs the same loop with a
\* small target so that both exits of the loop are reached.
DesiredCount == 2
\* paid_regs[:1000] in the sources; scaled with the lists so that the cap binds.
PaymentCap == 2
\* Longest registration list the derived stages are run on.
MaxRegs == 3
\* Largest distance, in hundredths of a cent, of a float product from the
\* exact product (the distance of a double is below 10^-10 of a cent).
FloatSlack == 1
\* generate_waitlists(.., 10, 50) in the sources: the size of a waitlist is
\* drawn from min_waitlist..max_waitlist, scaled with the user lists so that
\* there are fewer users than the smallest and more than the largest.
MinWaitlist == 2
MaxWaitlist == 3

\* ------------------------------------------------------- program constants
AttemptFactor == 10
MaxPerRegistration == 5
\* rating = random.randint(1, 5)
MinRating == 1
MaxRating == 5

\* ------------------------------------------------------------------ inputs
\* Ticket inventories (quantity_available) the inputs are drawn from: a
\* ticket with nothing to sell, and one that outlasts a draw of 5.
Inventories == {0, MaxPerRegistration + 1}
\* Event capacities the inputs are drawn from: one below every stocked
\* ticket's inventory, and one above it, large enough that each of the three
\* limits of the quantity draw (5, the ticket, the event) is in turn the
\* binding one.
Capacities == {1, MaxPerRegistration + 2}
\* Prices in cents: round(random.uniform(20, 50), 2) for General Admission,
\* round(random.uniform(50, 150), 2) for VIP.
GAPrices == {2500}
VIPPrices == {7535}

VARIABLES
    version,            \* "data" (data.py) or "v2" (v2_data.py)
    user_ids,           \* argument of generate_registrations
    event_capacities,   \* event_id -> events[i][6]
    tickets,            \* ticket_id -> ticket record (event_id, price, quantity_available, quantity_sold)
    desired_count,      \* local of generate_registrations
    registrations,      \* the list being built
    attempts,           \* local of generate_registrations
    tickets_remaining,  \* ticket_id -> remaining inventory
    event_reg_totals,   \* dict event_id -> consumed capacity (v2_data.py only)
    updated_tickets,    \* the reconciled ticket list
    payments,           \* output of generate_payments
    pc,                 \* position of main
    notifications,      \* output of generate_notifications
    feedback,           \* output of generate_feedback (v2_data.py only)
    waitlists,          \* output of generate_waitlists (v2_data.py only)
    force,              \* args.force
    run,                \* which run of the program this is, 1 or 2
    store,              \* table -> rows of the database (data.py)
    files,              \* file name -> rows of the file, or NoFile
    sql_content,        \* main: the list of INSERT statements (v2_data.py)
    clock,              \* time.time(), in seconds
    seeded,             \* what random.seed(42) fixes: the shuffle and the choices
    users,              \* output of generate_users
    events,             \* output of generate_events
    first_run,          \* the tables the first of two runs produced
    cache,              \* main.py: the file schema_cache.json, or NoFile
    schema,             \* main.py: the value get_db_schema returned
    fetches,            \* main.py: how often fetch_fresh_schema has connected
    success_log,        \* main.py: the lines of SUCCESS_LOG
    question,           \* main.py main: the question read at the prompt
    sql                 \* main.py main: the statement of the question, or None

vars == <<version, user_ids, event_capacities, tickets, desired_count, registrations,
          attempts, tickets_remaining, event_reg_totals, updated_tickets,
          payments, pc, notifications, feedback, waitlists, force, run, store,
          files, sql_content, clock, seeded, users, events, first_run, cache,
          schema, fetches, success_log, question, sql>>

\* The outputs of the stages that follow generate_payments, and the sinks.
derived == <<notifications, feedback, waitlists>>
sinks == <<force, run, store, files, sql_content>>
\* The variables of the specifications of the seeded runs and of main.py.
app == <<clock, seeded, users, events, first_run, cache, schema, fetches,
         success_log, question, sql>>
\* The memory of the generator programs but for the position of main.
memory == <<user_ids, event_capacities, tickets, desired_count, registrations,
            attempts, tickets_remaining, event_reg_totals, updated_tickets,
            payments>>

\* ----------------------------------------------------------------- helpers
Min(a, b) == IF a <= b THEN a ELSE b

\* dict.get(k, default)
Get(d, k, default) == IF k \in DOMAIN d THEN d[k] ELSE default

EmptyDict == [k \in {} |-> 0]

\* d[k] = v for a dict d that may not hold k yet
Put(d, k, v) == [x \in DOMAIN d \cup {k} |-> IF x = k THEN v ELSE d[x]]

\* event_ids = list(range(1, len(events) + 1)), the keys of event_capacities
event_ids == DOMAIN event_capacities

\* Mutant of ticket_map: every event is given every ticket.
ticket_map_AnyEvent(event_id) == DOMAIN tickets

\* ticket_map[event_id]: the ids of the tickets whose event_id is event_id
ticket_map(event_id) == {t \in DOMAIN tickets : tickets[t].event_id = event_id}

ticket_prices(ticket_id) == tickets[ticket_id].price

\* A float is counted in hundredths of a cent.  quantity * price is the
\* double next to the exact product of the two doubles, so it may lie a hair
\* to either side of the exact amount: every value within FloatSlack of it.
FloatProducts(quantity, price) ==
    { quantity * price * 100 + e : e \in -FloatSlack..FloatSlack }

\* Mutant of Round2: the digits after the second decimal are cut off.
Round2_Truncates(x) == x \div 100

\* round(x, 2), in cents: to the nearest cent, a tie going to the even cent.
Round2(x) ==
    LET cents == x \div 100
        rest == x % 100
    IN  IF rest > 50 \/ (rest = 50 /\ cents % 2 = 1) THEN cents + 1 ELSE cents

\* The values round(quantity * price, 2) can take, in cents.
TotalAmounts(quantity, price) ==
    { Round2(x) : x \in FloatProducts(quantity, price) }

\* total_amount = round(quantity * price, 2), in cents
total_amount(quantity, price) ==
    CHOOSE amount \in TotalAmounts(quantity, price) : TRUE

\* the registration tuple appended by generate_registrations
Registration(user_id, event_id, ticket_id, quantity, payment_status) ==
    [user_id |-> user_id, event_id |-> event_id, ticket_id |-> ticket_id,
     quantity |-> quantity,
     total_amount |-> total_amount(quantity, ticket_prices(ticket_id)),
     status |-> "confirmed", payment_status |-> payment_status]

\* 'paid' if random.random() < 0.4 else 'unpaid'
PaymentStatuses == {"paid", "unpaid"}

\* while len(registrations) < desired_count and attempts < desired_count * 10
LoopCondition ==
    /\ Len(registrations) < desired_count
    /\ attempts < desired_count * AttemptFactor

\* Mutants of QuantityUpper: a draw that forgets one of its three limits.
QuantityUpper_IgnoresTicket(available, remaining_capacity) ==
    Min(MaxPerRegistration, remaining_capacity)
QuantityUpper_IgnoresEvent(available, remaining_capacity) ==
    Min(MaxPerRegistration, available)
QuantityUpper_IgnoresFive(available, remaining_capacity) ==
    Min(available, remaining_capacity)

\* v2_data.py: the upper end of random.randint(1, min(5, available, remaining_capacity))
QuantityUpper(available, remaining_capacity) ==
    Min(MaxPerRegistration, Min(available, remaining_capacity))

\* data.py: quantity = random.randint(1, 5); if quantity > available: quantity = available
ClampToAvailable(quantity, available) ==
    IF quantity > available THEN available ELSE quantity

\* ------------------------------------------------------------------- Init
\* A ticket tuple as main builds it: General Admission, then VIP.
Ticket(event_id, ticket_type, price, quantity_available) ==
    [event_id |-> event_id, ticket_type |-> ticket_type, price |-> price,
     quantity_available |-> quantity_available, quantity_sold |-> 0]

\* The ticket lists the allocator is run on: two tickets, listed in event
\* order from event 1 on as main lists them, both of event 1 (event 2 then
\* has no ticket) or one of each event.
TicketLists ==
    { <<Ticket(1, "General Admission", p1, q1), Ticket(e2, "VIP", p2, q2)>> :
        <<e2, p1, p2, q1, q2>> \in
            {1, 2} \X GAPrices \X VIPPrices \X Inventories \X Inventories }

\* No stage after generate_payments has run yet.
NoOutputs ==
    /\ notifications = << >>
    /\ feedback = << >>
    /\ waitlists = << >>

\* The entry of a file that does not exist: os.path.exists(filename) is false.
NoFile == [exists |-> FALSE]

\* The entry of a file written by csv.writer: the header row and the rows.
CsvFile(columns, data) == [exists |-> TRUE, columns |-> columns, rows |-> data]

\* The specifications of the generator stages leave the sinks out: no table,
\* no file and no statement is tracked in them.
SinksLeftOut ==
    /\ force = FALSE
    /\ run = 1
    /\ store = [t \in {} |-> << >>]
    /\ files = [f \in {} |-> NoFile]
    /\ sql_content = << >>

\* Python's None.
None == "None"

\* The specifications of the generators leave the clock, the tables of
\* generate_users and generate_events and the state of main.py out.
AppLeftOut ==
    /\ clock = 0
    /\ seeded = [roles |-> << >>, choices |-> << >>]
    /\ users = << >>
    /\ events = << >>
    /\ first_run = [users |-> << >>, events |-> << >>]
    /\ cache = NoFile
    /\ schema = None
    /\ fetches = 0
    /\ success_log = << >>
    /\ question = None
    /\ sql = None

\* The state main is in when it calls generate_registrations.
InitLedger ==
    /\ registrations = << >>
    /\ attempts = 0
    /\ tickets_remaining = [t \in DOMAIN tickets |-> tickets[t].quantity_available]
    /\ event_reg_totals = EmptyDict
    /\ updated_tickets = << >>
    /\ payments = << >>
    /\ pc = "registrations"
    /\ NoOutputs
    /\ SinksLeftOut
    /\ AppLeftOut

\* data.py never reads the capacity of an event: its allocator is run on
\* one capacity per event, v2_data.py's on every choice of Capacities.
Init ==
    /\ version \in {"data", "v2"}
    /\ user_ids = {1}
    /\ event_capacities \in IF version = "v2" THEN [{1, 2} -> Capacities]
                                              ELSE {[e \in {1, 2} |-> 1]}
    /\ tickets \in TicketLists
    /\ desired_count = DesiredCount
    /\ InitLedger

\* ---------------------------------------------------------------- actions
\* Mutant of Discard: the draw is discarded before the attempt is counted.
Discard_NotCounted ==
    UNCHANGED <<app, attempts, registrations, tickets_remaining, event_reg_totals, pc>>

\* Mutant of Discard: the attempt is counted at the top of the loop and once
\* more before the continue.
Discard_CountedTwice ==
    /\ attempts' = attempts + 2
    /\ UNCHANGED <<app, registrations, tickets_remaining, event_reg_totals, pc>>

\* continue: the draw is discarded, the attempt is counted.
Discard ==
    /\ attempts' = attempts + 1
    /\ UNCHANGED <<app, registrations, tickets_remaining, event_reg_totals, pc>>

\* random.randint(1, n) with n < 1 raises ValueError out of generate_registrations.
RaiseValueError ==
    /\ attempts' = attempts + 1
    /\ pc' = "ValueError"
    /\ UNCHANGED <<app, registrations, tickets_remaining, event_reg_totals>>

\* if available <= 0: continue
SoldOut(available) == available <= 0

\* Mutant of EventFull: the event-level check is left out.
EventFull_Never(remaining_capacity) == FALSE

\* if remaining_capacity <= 0: continue
EventFull(remaining_capacity) == remaining_capacity <= 0

\* One iteration of the loop of v2_data.py generate_registrations.
V2Draw ==
    /\ pc = "registrations"
    /\ version = "v2"
    /\ LoopCondition
    /\ \E user_id \in user_ids, event_id \in event_ids :
         LET possible_tickets == ticket_map(event_id) IN
         IF possible_tickets = {} THEN Discard
         ELSE \E ticket_id \in possible_tickets :
           LET available == Get(tickets_remaining, ticket_id, 0) IN
           IF SoldOut(available) THEN Discard
           ELSE
             LET remaining_capacity ==
                   event_capacities[event_id] - Get(event_reg_totals, event_id, 0) IN
             IF EventFull(remaining_capacity) THEN Discard
             ELSE IF QuantityUpper(available, remaining_capacity) < 1
             THEN RaiseValueError
             ELSE \E quantity \in 1..QuantityUpper(available, remaining_capacity),
                     payment_status \in PaymentStatuses :
               /\ attempts' = attempts + 1
               /\ registrations' = Append(registrations,
                     Registration(user_id, event_id, ticket_id, quantity, payment_status))
               /\ tickets_remaining' =
                     [tickets_remaining EXCEPT ![ticket_id] = @ - quantity]
               /\ event_reg_totals' =
                     Put(event_reg_totals, event_id,
                         Get(event_reg_totals, event_id, 0) + quantity)
               /\ UNCHANGED pc
    /\ UNCHANGED <<app, derived, sinks, version, user_ids, event_capacities, tickets,
                   desired_count,
                   updated_tickets, payments>>

\* One iteration of the loop of data.py generate_registrations.
DataDraw ==
    /\ pc = "registrations"
    /\ version = "data"
    /\ LoopCondition
    /\ \E user_id \in user_ids, event_id \in event_ids :
         LET possible_tickets == ticket_map(event_id) IN
         IF possible_tickets = {} THEN Discard
         ELSE \E ticket_id \in possible_tickets :
           LET available == Get(tickets_remaining, ticket_id, 0) IN
           IF SoldOut(available) THEN Discard
           ELSE \E drawn \in 1..MaxPerRegistration,
                   payment_status \in PaymentStatuses :
             LET quantity == ClampToAvailable(drawn, available) IN
             /\ attempts' = attempts + 1
             /\ registrations' = Append(registrations,
                   Registration(user_id, event_id, ticket_id, quantity, payment_status))
             /\ tickets_remaining' =
                   [tickets_remaining EXCEPT ![ticket_id] = @ - quantity]
             /\ UNCHANGED <<app, event_reg_totals, pc>>
    /\ UNCHANGED <<app, derived, sinks, version, user_ids, event_capacities, tickets,
                   desired_count,
                   updated_tickets, payments>>

\* The loop condition is false: generate_registrations returns the list.  Its
\* local attempts goes out of scope (the model resets it); the two dicts are
\* the caller's and keep their contents.
RegistrationsReturn ==
    /\ pc = "registrations"
    /\ ~LoopCondition
    /\ attempts' = 0
    /\ pc' = "reconcile"
    /\ UNCHANGED <<app, derived, sinks, version, user_ids, event_capacities, tickets,
                   desired_count,
                   registrations, tickets_remaining, event_reg_totals,
                   updated_tickets, payments>>

\* Mutant of Sold: what is left is written where what was sold belongs.
Sold_WritesRemaining(orig_available, remaining) ==
    Min(remaining, orig_available)

\* main, "Update tickets' quantity_sold": the reconciled quantity of one ticket.
Sold(orig_available, remaining) ==
    Min(orig_available - remaining, orig_available)

\* main: updated_tickets, one tuple per ticket, in ticket order.
ReconciledTickets(remaining) ==
    [ticket_id \in DOMAIN tickets |->
        [tickets[ticket_id] EXCEPT !.quantity_sold =
            Sold(tickets[ticket_id].quantity_available,
                 Get(remaining, ticket_id, 0))]]

Reconcile ==
    /\ pc = "reconcile"
    /\ updated_tickets' = ReconciledTickets(tickets_remaining)
    /\ pc' = "payments"
    /\ UNCHANGED <<app, derived, sinks, version, user_ids, event_capacities, tickets,
                   desired_count,
                   registrations, attempts, tickets_remaining, event_reg_totals,
                   payments>>

\* paid_regs = [(i, reg) for i, reg in enumerate(registrations) if reg[7] == 'paid']
paid_regs(regs) ==
    SelectSeq([i \in 1..Len(regs) |-> [idx |-> i - 1, reg |-> regs[i]]],
              LAMBDA p : p.reg.payment_status = "paid")

\* Mutant of Slice: the last n are kept, s[-n:].
Slice_Last(s, n) == SubSeq(s, Len(s) - Min(n, Len(s)) + 1, Len(s))

\* s[:n]
Slice(s, n) == SubSeq(s, 1, Min(n, Len(s)))

\* Mutant of Payment: the enumerate index is used as it is, without the + 1.
Payment_ZeroBased(idx, reg) ==
    [registration_id |-> idx, user_id |-> reg.user_id,
     amount |-> reg.total_amount, payment_status |-> "completed"]

\* The payment tuple of one (idx, reg) pair.
Payment(idx, reg) ==
    [registration_id |-> idx + 1, user_id |-> reg.user_id,
     amount |-> reg.total_amount, payment_status |-> "completed"]

\* generate_payments(registrations)
generate_payments(regs) ==
    LET selected == Slice(paid_regs(regs), PaymentCap) IN
    [k \in 1..Len(selected) |-> Payment(selected[k].idx, selected[k].reg)]

GeneratePayments ==
    /\ pc = "payments"
    /\ payments' = generate_payments(registrations)
    /\ pc' = "done"
    /\ UNCHANGED <<app, derived, sinks, version, user_ids, event_capacities, tickets,
                   desired_count,
                   registrations, attempts, tickets_remaining, event_reg_totals,
                   updated_tickets>>

\* ------------------------------------------------------- derived values
\* Sum of quantity over a list of registrations.
RECURSIVE SumQuantity(_)
SumQuantity(regs) ==
    IF regs = << >> THEN 0 ELSE Head(regs).quantity + SumQuantity(Tail(regs))

\* Sum of quantity over the registrations of event e / of ticket t.
EventQuantity(regs, e) == SumQuantity(SelectSeq(regs, LAMBDA r : r.event_id = e))
TicketQuantity(regs, t) == SumQuantity(SelectSeq(regs, LAMBDA r : r.ticket_id = t))

Next ==
    \/ V2Draw
    \/ DataDraw
    \/ RegistrationsReturn
    \/ Reconcile
    \/ GeneratePayments

Spec == Init /\ [][Next]_vars

\* The interpreter keeps executing the sequential program: a step that is
\* possible is eventually taken.
FairSpec == Spec /\ WF_vars(Next)

\* The example of the specification: registration target 5 (attempt budget
\* 50), one event of capacity 3 with a single ticket of quantity_available 3.
ScenarioTickets == <<Ticket(1, "General Admission", 2500, 3)>>

ScenarioInit ==
    /\ version \in {"data", "v2"}
    /\ user_ids = {1, 2}
    /\ event_capacities = <<3>>
    /\ tickets = ScenarioTickets
    /\ desired_count = 5
    /\ InitLedger

\* The allocator on the inputs of Init and on the example.
ScenarioSpec == (Init \/ ScenarioInit) /\ [][Next]_vars

\* ------------------------------------------------- the derived stages
\* The derived stages are functions of the registration list alone.  They
\* are run on every list of up to MaxRegs registrations of two users, two
\* events with one ticket each and quantities 1 and 2, with the rest of the
\* state as it is when generate_registrations has returned that list.
DerivedTickets ==
    <<Ticket(1, "General Admission", 2500, 2 * MaxRegs),
      Ticket(2, "VIP", 7535, 2 * MaxRegs)>>

DerivedRegistrations ==
    LET records == { Registration(u, t, t, q, ps) :
                        u \in {1, 2}, t \in {1, 2}, q \in {1, 2},
                        ps \in PaymentStatuses }
    IN  UNION { [1..k -> records] : k \in 0..MaxRegs }

DerivedInit ==
    /\ version \in {"data", "v2"}
    /\ user_ids = {1, 2}
    /\ event_capacities = [e \in {1, 2} |-> 2 * MaxRegs]
    /\ tickets = DerivedTickets
    /\ registrations \in DerivedRegistrations
    /\ desired_count = Len(registrations)
    /\ attempts = 0
    /\ tickets_remaining =
          [t \in DOMAIN tickets |->
              tickets[t].quantity_available - TicketQuantity(registrations, t)]
    /\ event_reg_totals =
          IF version = "v2"
          THEN [e \in {registrations[i].event_id : i \in 1..Len(registrations)} |->
                   EventQuantity(registrations, e)]
          ELSE EmptyDict
    /\ updated_tickets = ReconciledTickets(tickets_remaining)
    /\ payments = << >>
    /\ pc = "payments"
    /\ NoOutputs
    /\ SinksLeftOut
    /\ AppLeftOut

DerivedNext == GeneratePayments

DerivedSpec == DerivedInit /\ [][DerivedNext]_vars

\* Sum of quantity_available over a set of tickets.
RECURSIVE InventoryOf(_)
InventoryOf(ts) ==
    IF ts = {} THEN 0
    ELSE LET t == CHOOSE x \in ts : TRUE IN
         tickets[t].quantity_available + InventoryOf(ts \ {t})

\* Sum over a set of events of min(capacity, inventory of the event's tickets).
RECURSIVE SupportedQuantity(_)
SupportedQuantity(es) ==
    IF es = {} THEN 0
    ELSE LET e == CHOOSE x \in es : TRUE IN
         Min(event_capacities[e], InventoryOf(ticket_map(e)))
         + SupportedQuantity(es \ {e})

\* ------------------------------------ the stages after generate_payments
\* The registration lists the later stages are run on: up to MaxRegs
\* registrations of two users and two events, each of quantity 1.
StageRegistrations ==
    LET records == { Registration(u, t, t, 1, ps) :
                        u \in {1, 2}, t \in {1, 2}, ps \in PaymentStatuses }
    IN  UNION { [1..k -> records] : k \in 0..MaxRegs }

\* The state main is in when generate_registrations has returned one of
\* lists and the tickets have been reconciled.
AfterReconcile(versions, user_sets, capacities, lists) ==
    /\ version \in versions
    /\ user_ids \in user_sets
    /\ event_capacities \in capacities
    /\ tickets = DerivedTickets
    /\ registrations \in lists
    /\ desired_count = Len(registrations)
    /\ attempts = 0
    /\ tickets_remaining =
          [t \in DOMAIN tickets |->
              tickets[t].quantity_available - TicketQuantity(registrations, t)]
    /\ event_reg_totals =
          IF version = "v2"
          THEN [e \in {registrations[i].event_id : i \in 1..Len(registrations)} |->
                   EventQuantity(registrations, e)]
          ELSE EmptyDict
    /\ updated_tickets = ReconciledTickets(tickets_remaining)

\* 'sent' if reg[7] == 'paid' else 'pending'
ConfirmationStatus(reg) ==
    IF reg.payment_status = "paid" THEN "sent" ELSE "pending"

\* sent_at of the confirmation: v2_data.py stamps paid registrations only,
\* data.py stamps every one.
ConfirmationSentAt(reg) ==
    IF version = "v2" /\ reg.payment_status # "paid" THEN "None" ELSE "timestamp"

\* Mutant of Confirmation: the notification names the event where the user
\* belongs and the user where the event belongs.
Confirmation_Swapped(reg) ==
    [user_id |-> reg.event_id, event_id |-> reg.user_id, message |-> "confirmed",
     status |-> ConfirmationStatus(reg), sent_at |-> ConfirmationSentAt(reg)]

\* The notification appended for every registration ("Your registration for
\* event .. is confirmed").
Confirmation(reg) ==
    [user_id |-> reg.user_id, event_id |-> reg.event_id, message |-> "confirmed",
     status |-> ConfirmationStatus(reg), sent_at |-> ConfirmationSentAt(reg)]

\* Mutant of Reminder: the reminder takes the status of the confirmation.
Reminder_StatusOfRegistration(reg) ==
    [user_id |-> reg.user_id, event_id |-> reg.event_id, message |-> "reminder",
     status |-> ConfirmationStatus(reg), sent_at |-> "None"]

\* The notification appended if random.random() < 0.5 ("Reminder: Your event
\* starts soon!").
Reminder(reg) ==
    [user_id |-> reg.user_id, event_id |-> reg.event_id, message |-> "reminder",
     status |-> "pending", sent_at |-> "None"]

\* generate_notifications(regs) from registration i on, where reminded is the
\* set of positions at which random.random() < 0.5 came out true.
RECURSIVE NotificationsFrom(_, _, _)
NotificationsFrom(regs, i, reminded) ==
    IF i > Len(regs) THEN << >>
    ELSE <<Confirmation(regs[i])>>
         \o (IF i \in reminded THEN <<Reminder(regs[i])>> ELSE << >>)
         \o NotificationsFrom(regs, i + 1, reminded)

generate_notifications(regs, reminded) == NotificationsFrom(regs, 1, reminded)

\* main: notifications = generate_notifications(registrations); the last stage
\* of data.py, followed in v2_data.py by the stages up to generate_feedback.
GenerateNotifications ==
    /\ pc = "notifications"
    /\ \E reminded \in SUBSET (1..Len(registrations)) :
          notifications' = generate_notifications(registrations, reminded)
    /\ pc' = IF version = "v2" THEN "feedback" ELSE "end"
    /\ UNCHANGED <<app, sinks, version, user_ids, event_capacities, tickets,
                   desired_count, registrations, attempts, tickets_remaining,
                   event_reg_totals, updated_tickets, payments, feedback,
                   waitlists>>

NotifyInit ==
    /\ AfterReconcile({"data", "v2"}, {{1, 2}},
                      {[e \in {1, 2} |-> 2 * MaxRegs]}, StageRegistrations)
    /\ payments = generate_payments(registrations)
    /\ pc = "notifications"
    /\ NoOutputs
    /\ SinksLeftOut
    /\ AppLeftOut

NotifyNext == GenerateNotifications

\* generate_notifications on every list of StageRegistrations.
NotifySpec == NotifyInit /\ [][NotifyNext]_vars

\* Mutant of FeedbackEligible: unpaid registrations give feedback as well.
FeedbackEligible_Anyone(reg) == TRUE

\* if reg[7] == 'paid' (and random.random() < feedback_probability)
FeedbackEligible(reg) == reg.payment_status = "paid"

\* rating = random.randint(1, 5)
Ratings == MinRating..MaxRating

\* The feedback tuple (event_id, user_id, rating, ..).
Feedback(reg, rating) ==
    [event_id |-> reg.event_id, user_id |-> reg.user_id, rating |-> rating]

\* generate_feedback(regs, feedback_probability), where rated maps the
\* positions at which the random test came out true to the rating drawn.
generate_feedback(regs, rated) ==
    LET given == SelectSeq([i \in 1..Len(regs) |-> [idx |-> i, reg |-> regs[i]]],
                           LAMBDA p : p.idx \in DOMAIN rated)
    IN  [k \in 1..Len(given) |-> Feedback(given[k].reg, rated[given[k].idx])]

\* main: feedback = generate_feedback(registrations, 0.3), followed by the
\* stages up to generate_waitlists.
GenerateFeedback ==
    /\ pc = "feedback"
    /\ \E positions \in
            SUBSET {i \in 1..Len(registrations) : FeedbackEligible(registrations[i])} :
          \E rated \in [positions -> Ratings] :
             feedback' = generate_feedback(registrations, rated)
    /\ pc' = "waitlists"
    /\ UNCHANGED <<app, sinks, version, user_ids, event_capacities, tickets,
                   desired_count, registrations, attempts, tickets_remaining,
                   event_reg_totals, updated_tickets, payments, notifications,
                   waitlists>>

\* The state v2_data.py main is in when it calls generate_feedback, after a
\* generate_notifications that appended no reminder.
FeedbackInit ==
    /\ AfterReconcile({"v2"}, {{1, 2}},
                      {[e \in {1, 2} |-> 2 * MaxRegs]}, StageRegistrations)
    /\ payments = generate_payments(registrations)
    /\ notifications = generate_notifications(registrations, {})
    /\ feedback = << >>
    /\ waitlists = << >>
    /\ pc = "feedback"
    /\ SinksLeftOut
    /\ AppLeftOut

FeedbackNext == GenerateFeedback

\* generate_feedback on every list of StageRegistrations.
FeedbackSpec == FeedbackInit /\ [][FeedbackNext]_vars

\* Mutant of calculate_total_registrations: the registrations are counted,
\* whatever their quantity.
calculate_total_registrations_CountsRows(regs) ==
    [e \in {regs[i].event_id : i \in 1..Len(regs)} |->
        Len(SelectSeq(regs, LAMBDA r : r.event_id = e))]

\* calculate_total_registrations(registrations): event_id -> summed quantity,
\* with a key for every event that has a registration.
calculate_total_registrations(regs) ==
    [e \in {regs[i].event_id : i \in 1..Len(regs)} |-> EventQuantity(regs, e)]

\* Mutant of SoldOutEvent: every event is given a waitlist.
SoldOutEvent_Always(event_id, total_regs) == TRUE

\* if total_regs.get(event_id, 0) >= event_capacities[event_id]
SoldOutEvent(event_id, total_regs) ==
    Get(total_regs, event_id, 0) >= event_capacities[event_id]

\* Mutant of SampleSize: the drawn size is used as it is.
SampleSize_Unclamped(num_waitlist, pool) == num_waitlist

\* min(num_waitlist, len(user_ids))
SampleSize(num_waitlist, pool) == Min(num_waitlist, Cardinality(pool))

\* The lists random.sample(users, k) can return: k pairwise distinct users in
\* any order.  For k > len(users) random.sample raises ValueError: no list.
Samples(pool, k) ==
    { s \in [1..k -> pool] : \A i, j \in 1..k : i # j => s[i] # s[j] }

\* The waitlist tuples (event_id, user_id, ..) of the events from event_id
\* on, in the order of event_ids, where selected_users maps each sold-out
\* event to its sample.
RECURSIVE WaitlistsFrom(_, _)
WaitlistsFrom(event_id, selected_users) ==
    IF event_id \notin event_ids THEN << >>
    ELSE (IF event_id \in DOMAIN selected_users
          THEN [k \in 1..Len(selected_users[event_id]) |->
                   [event_id |-> event_id, user_id |-> selected_users[event_id][k]]]
          ELSE << >>)
         \o WaitlistsFrom(event_id + 1, selected_users)

\* main: total_regs = calculate_total_registrations(registrations);
\* waitlists = generate_waitlists(user_ids, event_ids, total_regs,
\* event_capacities, 10, 50), the last stage of v2_data.py.
GenerateWaitlists ==
    /\ pc = "waitlists"
    /\ LET total_regs == calculate_total_registrations(registrations)
           sold_out == {e \in event_ids : SoldOutEvent(e, total_regs)}
       IN  \E num_waitlist \in [sold_out -> MinWaitlist..MaxWaitlist] :
             IF \E e \in sold_out :
                   SampleSize(num_waitlist[e], user_ids) > Cardinality(user_ids)
             THEN /\ pc' = "ValueError"
                  /\ UNCHANGED waitlists
             ELSE \E selected_users \in
                       [sold_out -> UNION { Samples(user_ids,
                                                    SampleSize(num_waitlist[e], user_ids)) :
                                              e \in sold_out }] :
                    /\ \A e \in sold_out :
                          Len(selected_users[e]) = SampleSize(num_waitlist[e], user_ids)
                    /\ waitlists' = WaitlistsFrom(1, selected_users)
                    /\ pc' = "end"
    /\ UNCHANGED <<app, sinks, version, user_ids, event_capacities, tickets,
                   desired_count, registrations, attempts, tickets_remaining,
                   event_reg_totals, updated_tickets, payments, notifications,
                   feedback>>

\* The user lists generate_waitlists is run on: fewer users than the
\* smallest waitlist, as many as the largest, and more.
WaitlistUsers == { 1..n : n \in {MinWaitlist - 1, MaxWaitlist, MaxWaitlist + 1} }

\* The registration lists generate_waitlists is run on: registrations of
\* quantity 1 of the first user, unpaid.
WaitlistRegistrations ==
    LET records == { Registration(1, t, t, 1, "unpaid") : t \in {1, 2} }
    IN  UNION { [1..k -> records] : k \in 0..MaxRegs }

\* The state v2_data.py main is in when it calls generate_waitlists, after a
\* generate_notifications that appended no reminder and a generate_feedback
\* that appended nothing; no event holds more than its capacity.
WaitlistInit ==
    /\ AfterReconcile({"v2"}, WaitlistUsers, [{1, 2} -> {1, 2}],
                      WaitlistRegistrations)
    /\ \A e \in event_ids : EventQuantity(registrations, e) <= event_capacities[e]
    /\ payments = generate_payments(registrations)
    /\ notifications = generate_notifications(registrations, {})
    /\ feedback = << >>
    /\ waitlists = << >>
    /\ pc = "waitlists"
    /\ SinksLeftOut
    /\ AppLeftOut

WaitlistNext == GenerateWaitlists

\* generate_waitlists on the lists of WaitlistRegistrations.
WaitlistSpec == WaitlistInit /\ [][WaitlistNext]_vars

\* ------------------------------------------------ data.py: main and its sinks
\* The tables of data.py in the order main writes them; the file of a table
\* is csv/<table>.csv, and files is keyed by the table's name.
DataTables ==
    <<"users", "venues", "event_categories", "events", "tickets",
      "event_category_mapping", "registrations", "payments", "notifications">>

\* The positions of main after its check, in order: one per table, and the
\* ticket update between registrations and payments.
DataStages ==
    <<"users", "venues", "event_categories", "events", "tickets",
      "event_category_mapping", "registrations", "update_tickets", "payments",
      "notifications">>

\* The position of main after the section stage, the sections being stages.
StageAfter(stages, stage) ==
    LET i == CHOOSE k \in 1..Len(stages) : stages[k] = stage IN
    IF i = Len(stages) THEN "end" ELSE stages[i + 1]

\* Mutant of batch_insert: the rows are inserted whatever the table holds.
batch_insert_Always(db, table, data, forced) ==
    [db EXCEPT ![table] = @ \o data]

\* batch_insert(conn, table, columns, data, args): SELECT COUNT(*), return if
\* the table has rows and force is off, INSERT the rows otherwise.
batch_insert(db, table, data, forced) ==
    IF Len(db[table]) > 0 /\ ~forced THEN db
    ELSE [db EXCEPT ![table] = @ \o data]

\* write_to_csv(filename, columns, data, args): return if the file exists and
\* force is off, open(filename, 'w') and write the header and the rows
\* otherwise.
write_to_csv(fs, filename, data, forced) ==
    IF fs[filename].exists /\ ~forced THEN fs
    ELSE [fs EXCEPT ![filename] = CsvFile(filename, data)]

\* UPDATE tickets SET quantity_sold = t[4] WHERE ticket_id = ticket_id, for
\* every ticket of updated: ticket_id is the serial key, the position of the
\* row in the table.
UpdateQuantitySold(rows, updated) ==
    [i \in 1..Len(rows) |->
        IF i <= Len(updated)
        THEN [rows[i] EXCEPT !.quantity_sold = updated[i].quantity_sold]
        ELSE rows[i]]

\* The rows main holds for a table once it has generated them.  Nothing is
\* derived from the venues, the categories and the mapping: one row stands
\* for their rows.
RowsOf(table) ==
    CASE table = "users" -> [i \in 1..Cardinality(user_ids) |-> [user_id |-> i]]
      [] table = "events" ->
            [e \in 1..Len(event_capacities) |-> [capacity |-> event_capacities[e]]]
      [] table = "tickets" -> tickets
      [] table = "registrations" -> registrations
      [] table = "payments" -> payments
      [] table = "notifications" -> notifications
      [] table = "feedback" -> feedback
      [] table = "waitlists" -> waitlists
      [] OTHER -> <<[row_of |-> table]>>

\* batch_insert(conn, table, ..) followed by write_to_csv('csv/<table>.csv', ..)
\* as main calls them for every table with the rows just generated, and the
\* variables no stage of main assigns.
SinkStep(table) ==
    /\ store' = batch_insert(store, table, RowsOf(table)', force)
    /\ files' = write_to_csv(files, table, RowsOf(table)', force)
    /\ pc' = StageAfter(DataStages, table)
    /\ UNCHANGED <<app, version, desired_count, attempts, event_reg_totals, feedback,
                   waitlists, force, run, sql_content>>

\* create_connection: max_attempts = 5
max_attempts == 5

\* Mutant of ConnectLoop: the loop is entered once more.
ConnectLoop_OneMore(failed) == failed <= max_attempts

\* create_connection: while attempts < max_attempts
ConnectLoop(failed) == failed < max_attempts

\* create_connection, one pass of its loop: psycopg2.connect(..) returns the
\* connection, which create_connection returns to main at once, or raises
\* OperationalError, which the except clause counts before it sleeps.
Connect ==
    /\ pc = "connect"
    /\ ConnectLoop(attempts)
    /\ \E connected \in BOOLEAN :
          IF connected
          THEN pc' = "check" /\ attempts' = 0
          ELSE pc' = "connect" /\ attempts' = attempts + 1
    /\ UNCHANGED <<app, derived, sinks, version, user_ids, event_capacities,
                   tickets, desired_count, registrations, tickets_remaining,
                   event_reg_totals, updated_tickets, payments>>

\* create_connection, after its loop: raise Exception(..).  main calls
\* create_connection before its try statement and catches nothing: the
\* program ends.
ConnectRaise ==
    /\ pc = "connect"
    /\ ~ConnectLoop(attempts)
    /\ pc' = "Exception"
    /\ UNCHANGED <<app, derived, sinks, version, user_ids, event_capacities,
                   tickets, desired_count, registrations, attempts,
                   tickets_remaining, event_reg_totals, updated_tickets,
                   payments>>

\* main: SELECT COUNT(*) FROM users; return if there are users and force is off.
DataCheck ==
    /\ pc = "check"
    /\ pc' = IF Len(store["users"]) > 0 /\ ~force THEN "end" ELSE "users"
    /\ UNCHANGED <<app, derived, sinks, version, user_ids, event_capacities, tickets,
                   desired_count, registrations, attempts, tickets_remaining,
                   event_reg_totals, updated_tickets, payments>>

\* main, "Users": generate_users() gives the users, two of them here.
DataUsers ==
    /\ pc = "users"
    /\ user_ids' = {1, 2}
    /\ UNCHANGED <<app, event_capacities, tickets, registrations, tickets_remaining,
                   updated_tickets, payments, notifications>>
    /\ SinkStep("users")

\* main, "Venues", "Event Categories", "Event Category Mapping": tables
\* nothing is derived from; one row stands for their rows.
DataPlain(table) ==
    /\ pc = table
    /\ UNCHANGED <<app, user_ids, event_capacities, tickets, registrations,
                   tickets_remaining, updated_tickets, payments, notifications>>
    /\ SinkStep(table)

\* main, "Events": generate_events(..) gives the events, one of them here.
DataEvents ==
    /\ pc = "events"
    /\ \E capacity \in Capacities : event_capacities' = <<capacity>>
    /\ UNCHANGED <<app, user_ids, tickets, registrations, tickets_remaining,
                   updated_tickets, payments, notifications>>
    /\ SinkStep("events")

\* main, "Tickets": a General Admission and a VIP ticket for every event.
DataTickets ==
    /\ pc = "tickets"
    /\ tickets' = <<Ticket(1, "General Admission", 2500, MaxPerRegistration + 1),
                    Ticket(1, "VIP", 7535, MaxPerRegistration + 1)>>
    /\ UNCHANGED <<app, user_ids, event_capacities, registrations, tickets_remaining,
                   updated_tickets, payments, notifications>>
    /\ SinkStep("tickets")

\* main, "Registrations": tickets_remaining is built from the tickets and
\* generate_registrations returns a list of desired_count registrations, the
\* loop of DataDraw summed up in one step.
DataRegistrations ==
    /\ pc = "registrations"
    /\ \E regs \in [1..desired_count ->
                      { Registration(u, 1, t, q, ps) :
                          u \in user_ids, t \in DOMAIN tickets, q \in {1, 2},
                          ps \in PaymentStatuses }] :
          /\ \A t \in DOMAIN tickets :
                TicketQuantity(regs, t) <= tickets[t].quantity_available
          /\ registrations' = regs
          /\ tickets_remaining' =
                [t \in DOMAIN tickets |->
                    tickets[t].quantity_available - TicketQuantity(regs, t)]
    /\ UNCHANGED <<app, user_ids, event_capacities, tickets, updated_tickets,
                   payments, notifications>>
    /\ SinkStep("registrations")

\* main, "Update tickets' quantity_sold": updated_tickets, the UPDATE of the
\* tickets table and the second write_to_csv of csv/tickets.csv.
DataUpdateTickets ==
    /\ pc = "update_tickets"
    /\ updated_tickets' = ReconciledTickets(tickets_remaining)
    /\ store' = [store EXCEPT !["tickets"] = UpdateQuantitySold(@, updated_tickets')]
    /\ files' = write_to_csv(files, "tickets", updated_tickets', force)
    /\ pc' = StageAfter(DataStages, "update_tickets")
    /\ UNCHANGED <<app, derived, version, user_ids, event_capacities, tickets,
                   desired_count, registrations, attempts, tickets_remaining,
                   event_reg_totals, payments, force, run, sql_content>>

\* main, "Payments"
DataPayments ==
    /\ pc = "payments"
    /\ payments' = generate_payments(registrations)
    /\ UNCHANGED <<app, user_ids, event_capacities, tickets, registrations,
                   tickets_remaining, updated_tickets, notifications>>
    /\ SinkStep("payments")

\* main, "Notifications"
DataNotifications ==
    /\ pc = "notifications"
    /\ \E reminded \in SUBSET (1..Len(registrations)) :
          notifications' = generate_notifications(registrations, reminded)
    /\ UNCHANGED <<app, user_ids, event_capacities, tickets, registrations,
                   tickets_remaining, updated_tickets, payments>>
    /\ SinkStep("notifications")

\* The program has ended and is started again, with or without --force: the
\* store and the files are as the first run left them, the memory is new.
Rerun ==
    /\ pc = "end"
    /\ run = 1
    /\ run' = 2
    /\ force' \in BOOLEAN
    /\ pc' = "connect"
    /\ attempts' = 0
    /\ user_ids' = {}
    /\ event_capacities' = << >>
    /\ tickets' = << >>
    /\ registrations' = << >>
    /\ tickets_remaining' = EmptyDict
    /\ updated_tickets' = << >>
    /\ payments' = << >>
    /\ notifications' = << >>
    /\ UNCHANGED <<app, version, desired_count, event_reg_totals, feedback,
                   waitlists, store, files, sql_content>>

\* The memory of data.py main when it calls create_connection.
DataMemory ==
    /\ version = "data"
    /\ run = 1
    /\ sql_content = << >>
    /\ user_ids = {}
    /\ event_capacities = << >>
    /\ tickets = << >>
    /\ desired_count = 1
    /\ registrations = << >>
    /\ attempts = 0
    /\ tickets_remaining = EmptyDict
    /\ event_reg_totals = EmptyDict
    /\ updated_tickets = << >>
    /\ payments = << >>
    /\ pc = "connect"
    /\ NoOutputs
    /\ AppLeftOut

TableNames == {DataTables[i] : i \in 1..Len(DataTables)}

\* data.py main is started on an empty store with no csv file, with or
\* without --force.
FreshInit ==
    /\ force \in BOOLEAN
    /\ store = [t \in TableNames |-> << >>]
    /\ files = [t \in TableNames |-> NoFile]
    /\ DataMemory

\* A row an earlier use of the store or of the csv directory left behind.
LeftoverRows(table) ==
    IF table = "tickets"
    THEN <<Ticket(1, "General Admission", 2500, MaxPerRegistration + 1)>>
    ELSE <<[row_of |-> table]>>

\* data.py main is started on a store that is empty, or has rows in every
\* table, or in every table but users, and on a csv directory that is empty
\* or has a file for every table.
SinkInit ==
    /\ force \in BOOLEAN
    /\ store \in { [t \in TableNames |->
                      IF t \in populated THEN LeftoverRows(t) ELSE << >>] :
                   populated \in {{}, TableNames \ {"users"}, TableNames} }
    /\ files \in { [t \in TableNames |-> NoFile],
                   [t \in TableNames |-> CsvFile(t, LeftoverRows(t))] }
    /\ DataMemory

SinkNext ==
    \/ Connect
    \/ ConnectRaise
    \/ DataCheck
    \/ DataUsers
    \/ \E table \in {"venues", "event_categories", "event_category_mapping"} :
          DataPlain(table)
    \/ DataEvents
    \/ DataTickets
    \/ DataRegistrations
    \/ DataUpdateTickets
    \/ DataPayments
    \/ DataNotifications
    \/ Rerun

\* Two runs of data.py main, one after the other.
SinkSpec == SinkInit /\ [][SinkNext]_vars

\* The same, the first run on an empty store and an empty csv directory.
FreshSpec == FreshInit /\ [][SinkNext]_vars

\* ------------------------------------------- v2_data.py: main and its file
\* The sections of v2_data.py main in order: one per INSERT statement, and
\* the writing of the file.
V2Stages ==
    <<"users", "venues", "event_categories", "events", "tickets",
      "event_category_mapping", "registrations", "update_tickets", "payments",
      "notifications", "speakers", "sponsors", "sessions", "event_sponsors",
      "feedback", "promotions", "waitlists", "write">>

\* sql_filename = 'data_insert.sql'
SqlFilename == "data_insert.sql"

\* generate_sql_insert(table, columns, data): one INSERT INTO table statement
\* with one tuple of VALUES per row of data.
generate_sql_insert(table, data) == [table |-> table, rows |-> data]

\* The entry of the file main writes: BEGIN, the statements, COMMIT.
SqlFile(statements) == [exists |-> TRUE, statements |-> statements]

\* sql_content.append(generate_sql_insert(table, .., rows)) with the rows just
\* generated, and the variables no section of main assigns.
SqlStep(stage, table) ==
    /\ sql_content' = Append(sql_content, generate_sql_insert(table, RowsOf(table)'))
    /\ pc' = StageAfter(V2Stages, stage)
    /\ UNCHANGED <<app, version, desired_count, attempts, force, run, store, files>>

\* main, "Users": generate_users() gives the users, two of them here.
V2Users ==
    /\ pc = "users"
    /\ user_ids' = {1, 2}
    /\ UNCHANGED <<app, derived, event_capacities, tickets, registrations,
                   tickets_remaining, event_reg_totals, updated_tickets, payments>>
    /\ SqlStep("users", "users")

\* main, "Venues", "Event Categories", "Event Category Mapping", "Speakers",
\* "Sponsors", "Sessions", "Event Sponsors", "Promotions": tables nothing of
\* the model is derived from; one row stands for their rows.
V2Plain(table) ==
    /\ pc = table
    /\ UNCHANGED <<app, derived, user_ids, event_capacities, tickets, registrations,
                   tickets_remaining, event_reg_totals, updated_tickets, payments>>
    /\ SqlStep(table, table)

\* main, "Events": generate_events(..) gives the events, one of them here.
V2Events ==
    /\ pc = "events"
    /\ \E capacity \in Capacities : event_capacities' = <<capacity>>
    /\ UNCHANGED <<app, derived, user_ids, tickets, registrations, tickets_remaining,
                   event_reg_totals, updated_tickets, payments>>
    /\ SqlStep("events", "events")

\* main, "Tickets": generate_tickets for an event of a capacity below 600,
\* where randint(min(300, c // 2), min(1000, c // 2)) is c // 2 and
\* randint(min(300, rest), min(600, rest)) is the rest.
V2Tickets ==
    /\ pc = "tickets"
    /\ LET capacity == event_capacities[1]
           ga_quantity == capacity \div 2
       IN  tickets' = <<Ticket(1, "General Admission", 2500, ga_quantity),
                        Ticket(1, "VIP", 7535, capacity - ga_quantity)>>
    /\ UNCHANGED <<app, derived, user_ids, event_capacities, registrations,
                   tickets_remaining, event_reg_totals, updated_tickets, payments>>
    /\ SqlStep("tickets", "tickets")

\* main, "Registrations": the two ledgers are built and generate_registrations
\* returns a list of desired_count registrations, the loop of V2Draw summed
\* up in one step.
V2Registrations ==
    /\ pc = "registrations"
    /\ \E regs \in [1..desired_count ->
                      { Registration(u, 1, t, q, ps) :
                          u \in user_ids, t \in DOMAIN tickets, q \in {1, 2},
                          ps \in PaymentStatuses }] :
          /\ \A t \in DOMAIN tickets :
                TicketQuantity(regs, t) <= tickets[t].quantity_available
          /\ EventQuantity(regs, 1) <= event_capacities[1]
          /\ registrations' = regs
          /\ tickets_remaining' =
                [t \in DOMAIN tickets |->
                    tickets[t].quantity_available - TicketQuantity(regs, t)]
          /\ event_reg_totals' = calculate_total_registrations(regs)
    /\ UNCHANGED <<app, derived, user_ids, event_capacities, tickets, updated_tickets,
                   payments>>
    /\ SqlStep("registrations", "registrations")

\* main, "Update tickets' quantity_sold" and "Generate SQL for updated
\* tickets": a second INSERT INTO tickets, of updated_tickets.
V2UpdateTickets ==
    /\ pc = "update_tickets"
    /\ updated_tickets' = ReconciledTickets(tickets_remaining)
    /\ sql_content' = Append(sql_content,
                             generate_sql_insert("tickets", updated_tickets'))
    /\ pc' = StageAfter(V2Stages, "update_tickets")
    /\ UNCHANGED <<app, derived, version, user_ids, event_capacities, tickets,
                   desired_count, registrations, attempts, tickets_remaining,
                   event_reg_totals, payments, force, run, store, files>>

\* Mutant of V2Payments: generate_payments filters the caller's list in
\* place, registrations[:] = the paid ones, before it reads it.
V2Payments_FiltersInPlace ==
    /\ pc = "payments"
    /\ registrations' =
          SelectSeq(registrations, LAMBDA r : r.payment_status = "paid")
    /\ payments' = generate_payments(registrations')
    /\ UNCHANGED <<app, derived, user_ids, event_capacities, tickets,
                   tickets_remaining, event_reg_totals, updated_tickets>>
    /\ SqlStep("payments", "payments")

\* main, "Payments"
V2Payments ==
    /\ pc = "payments"
    /\ payments' = generate_payments(registrations)
    /\ UNCHANGED <<app, derived, user_ids, event_capacities, tickets, registrations,
                   tickets_remaining, event_reg_totals, updated_tickets>>
    /\ SqlStep("payments", "payments")

\* main, "Notifications"
V2Notifications ==
    /\ pc = "notifications"
    /\ \E reminded \in SUBSET (1..Len(registrations)) :
          notifications' = generate_notifications(registrations, reminded)
    /\ UNCHANGED <<app, user_ids, event_capacities, tickets, registrations,
                   tickets_remaining, event_reg_totals, updated_tickets,
                   payments, feedback, waitlists>>
    /\ SqlStep("notifications", "notifications")

\* main, "Feedback"
V2Feedback ==
    /\ pc = "feedback"
    /\ \E positions \in
            SUBSET {i \in 1..Len(registrations) : FeedbackEligible(registrations[i])} :
          \E rated \in [positions -> Ratings] :
             feedback' = generate_feedback(registrations, rated)
    /\ UNCHANGED <<app, user_ids, event_capacities, tickets, registrations,
                   tickets_remaining, event_reg_totals, updated_tickets,
                   payments, notifications, waitlists>>
    /\ SqlStep("feedback", "feedback")

\* main, "Waitlists"
V2Waitlists ==
    /\ pc = "waitlists"
    /\ LET total_regs == calculate_total_registrations(registrations)
           sold_out == {e \in event_ids : SoldOutEvent(e, total_regs)}
       IN  \E num_waitlist \in [sold_out -> MinWaitlist..MaxWaitlist] :
             \E selected_users \in
                   [sold_out -> UNION { Samples(user_ids,
                                                SampleSize(num_waitlist[e], user_ids)) :
                                          e \in sold_out }] :
                /\ \A e \in sold_out :
                      Len(selected_users[e]) = SampleSize(num_waitlist[e], user_ids)
                /\ waitlists' = WaitlistsFrom(1, selected_users)
    /\ UNCHANGED <<app, user_ids, event_capacities, tickets, registrations,
                   tickets_remaining, event_reg_totals, updated_tickets,
                   payments, notifications, feedback>>
    /\ SqlStep("waitlists", "waitlists")

\* main, "Write all SQL content to a file": return if the file exists and
\* force is off, write BEGIN, the statements and COMMIT otherwise.
V2Write ==
    /\ pc = "write"
    /\ files' = IF files[SqlFilename].exists /\ ~force THEN files
                ELSE [files EXCEPT ![SqlFilename] = SqlFile(sql_content)]
    /\ pc' = "end"
    /\ UNCHANGED <<app, derived, version, user_ids, event_capacities, tickets,
                   desired_count, registrations, attempts, tickets_remaining,
                   event_reg_totals, updated_tickets, payments, force, run,
                   store, sql_content>>

\* v2_data.py main is started, with or without --force, where data_insert.sql
\* does not exist or an earlier run has left one.
SqlInit ==
    /\ version = "v2"
    /\ force \in BOOLEAN
    /\ run = 1
    /\ store = [t \in {} |-> << >>]
    /\ files \in { [f \in {SqlFilename} |-> NoFile],
                   [f \in {SqlFilename} |->
                       SqlFile(<<generate_sql_insert("users", LeftoverRows("users"))>>)] }
    /\ sql_content = << >>
    /\ user_ids = {}
    /\ event_capacities = << >>
    /\ tickets = << >>
    /\ desired_count = 1
    /\ registrations = << >>
    /\ attempts = 0
    /\ tickets_remaining = EmptyDict
    /\ event_reg_totals = EmptyDict
    /\ updated_tickets = << >>
    /\ payments = << >>
    /\ pc = "users"
    /\ NoOutputs
    /\ AppLeftOut

SqlNext ==
    \/ V2Users
    \/ \E table \in {"venues", "event_categories", "event_category_mapping",
                     "speakers", "sponsors", "sessions", "event_sponsors",
                     "promotions"} :
          V2Plain(table)
    \/ V2Events
    \/ V2Tickets
    \/ V2Registrations
    \/ V2UpdateTickets
    \/ V2Payments
    \/ V2Notifications
    \/ V2Feedback
    \/ V2Waitlists
    \/ V2Write

\* A run of v2_data.py main.
SqlSpec == SqlInit /\ [][SqlNext]_vars

\* The number of rows the statements insert into table.
RECURSIVE RowsInserted(_, _)
RowsInserted(statements, table) ==
    IF statements = << >> THEN 0
    ELSE (IF Head(statements).table = table THEN Len(Head(statements).rows) ELSE 0)
         + RowsInserted(Tail(statements), table)

\* ------------------------------- generate_users, generate_events: two runs
\* roles = ['attendee'] * 80 + ['organizer'] * 15 + ['admin'] * 5, scaled
Attendees == 2
Organizers == 1
Admins == 1
\* range(500) over a role list of 100: the users are five times the roles,
\* here RoleCycles times.
RoleCycles == 2
\* range(15) in generate_events
EventCount == 2
\* random.random() takes one of RandomUnits values: k / RandomUnits
RandomUnits == 2
\* time.time() at the start of a run, in seconds
Clocks == {0, 1}

\* n copies of x: [x] * n
Copies(x, n) == [i \in 1..n |-> x]

\* roles before the shuffle
RoleList ==
    Copies("attendee", Attendees) \o Copies("organizer", Organizers)
        \o Copies("admin", Admins)

\* How often x occurs in the list s.
Occurrences(s, x) == Cardinality({i \in 1..Len(s) : s[i] = x})

\* The orders random.shuffle(s) can leave s in: the same elements, each as
\* often.
Shuffles(s) ==
    LET elements == {s[i] : i \in 1..Len(s)} IN
    { r \in [1..Len(s) -> elements] :
        \A x \in elements : Occurrences(r, x) = Occurrences(s, x) }

\* random.seed(42) fixes every later value of random.*: the order shuffle
\* leaves roles in and the value random.random() has in each choice of
\* generate_events.  The model does not know them: any, the same in every run.
SeededValues ==
    [roles : Shuffles(RoleList),
     choices : [1..EventCount -> 0..(RandomUnits - 1)]]

\* len(users): range(500)
UserTotal == RoleCycles * Len(RoleList)

\* role = roles[i % 100], i counted from 0
RoleOf(roles, i) == roles[(i % Len(roles)) + 1]

\* timestamp = int(time.time() * 1000) + i, which ends the email address
EmailTimestamp(now, i) == now * 1000 + i

\* generate_users(): the role and the email of every user
generate_users(now) ==
    [n \in 1..UserTotal |->
        [role |-> RoleOf(seeded.roles, n - 1),
         email |-> EmailTimestamp(now, n - 1)]]

\* Mutant of organizer_ids: the positions are counted from 0.
organizer_ids_ZeroBased(rows) ==
    SelectSeq([i \in 1..Len(rows) |-> i - 1],
              LAMBDA i : rows[i + 1].role \in {"organizer", "admin"})

\* main: organizer_ids = [i + 1 for i, u in enumerate(users)
\*                          if u[5] in ('organizer', 'admin')]
organizer_ids(rows) ==
    SelectSeq([i \in 1..Len(rows) |-> i],
              LAMBDA i : rows[i].role \in {"organizer", "admin"})

\* random.choice(seq) with random.random() = unit / RandomUnits:
\* seq[floor(random() * len(seq))]
Choice(seq, unit) == seq[((unit * Len(seq)) \div RandomUnits) + 1]

\* generate_events(organizer_ids, venue_ids): the organizer of every event
generate_events(ids) ==
    [e \in 1..EventCount |-> [organizer_id |-> Choice(ids, seeded.choices[e])]]

\* main, "Users"
SeedUsers ==
    /\ pc = "users"
    /\ users' = generate_users(clock)
    /\ pc' = "events"
    /\ UNCHANGED <<memory, derived, sinks, version, clock, seeded, events,
                   first_run, cache, schema, fetches, success_log, question,
                   sql>>

\* main, "Events": random.choice raises IndexError on an empty organizer_ids.
SeedEvents ==
    /\ pc = "events"
    /\ LET ids == organizer_ids(users) IN
          IF ids = << >>
          THEN pc' = "IndexError" /\ events' = events
          ELSE pc' = "end" /\ events' = generate_events(ids)
    /\ UNCHANGED <<memory, derived, sinks, version, clock, seeded, users,
                   first_run, cache, schema, fetches, success_log, question,
                   sql>>

\* The program has ended and is started again at the same or a later time:
\* the module seeds again, the tables of the first run are kept aside.
SeedRerun ==
    /\ pc = "end"
    /\ run = 1
    /\ run' = 2
    /\ first_run' = [users |-> users, events |-> events]
    /\ clock' \in {c \in Clocks : c >= clock}
    /\ users' = << >>
    /\ events' = << >>
    /\ pc' = "users"
    /\ UNCHANGED <<memory, derived, version, force, store, files, sql_content,
                   seeded, cache, schema, fetches, success_log, question, sql>>

\* The locals of the generators' main that the stages modelled here do not
\* read.
MemoryLeftOut ==
    /\ user_ids = {}
    /\ event_capacities = << >>
    /\ tickets = << >>
    /\ desired_count = 0
    /\ registrations = << >>
    /\ attempts = 0
    /\ tickets_remaining = EmptyDict
    /\ event_reg_totals = EmptyDict
    /\ updated_tickets = << >>
    /\ payments = << >>
    /\ NoOutputs

\* Either program right after its imports: the generators are seeded, no
\* table is generated yet.
SeedInit ==
    /\ version \in {"data", "v2"}
    /\ clock \in Clocks
    /\ seeded \in SeededValues
    /\ users = << >>
    /\ events = << >>
    /\ first_run = [users |-> << >>, events |-> << >>]
    /\ cache = NoFile
    /\ schema = None
    /\ fetches = 0
    /\ success_log = << >>
    /\ question = None
    /\ sql = None
    /\ pc = "users"
    /\ MemoryLeftOut
    /\ SinksLeftOut

SeedNext ==
    \/ SeedUsers
    \/ SeedEvents
    \/ SeedRerun

\* Two runs of the first two generators of main, one after the other.
SeedSpec == SeedInit /\ [][SeedNext]_vars

\* ------------------------------------------------ v2_data.py: generate_tickets
\* min(300, ..), min(1000, ..), min(300, ..), min(600, ..) in the source, in
\* hundreds of tickets here.
GaLowerCap == 3
GaUpperCap == 10
VipLowerCap == 3
VipUpperCap == 6

\* Capacities generate_tickets is run on: none, one, and one in each range
\* the four limits cut the capacities into.
TicketCapacities ==
    {0, 1, 2 * GaLowerCap - 1, 2 * GaLowerCap + 1,
     GaLowerCap + 2 * VipUpperCap - 2, 2 * GaUpperCap + 3}

\* ga_lower = min(300, capacity // 2)
ga_lower(capacity) == Min(GaLowerCap, capacity \div 2)

\* ga_upper = min(1000, capacity // 2)
ga_upper(capacity) == Min(GaUpperCap, capacity \div 2)

\* vip_lower = min(300, remaining_capacity)
vip_lower(remaining_capacity) == Min(VipLowerCap, remaining_capacity)

\* Mutant of vip_upper: the capacity the General Admission ticket has left
\* over is not looked at.
vip_upper_IgnoresRemaining(remaining_capacity) == VipUpperCap

\* vip_upper = min(600, remaining_capacity)
vip_upper(remaining_capacity) == Min(VipUpperCap, remaining_capacity)

\* generate_tickets, one iteration of its loop: the two tickets of the next
\* event.  random.randint(a, b) raises ValueError when a > b.
TicketsOfEvent ==
    /\ pc = "tickets"
    /\ Len(tickets) < 2 * Len(event_capacities)
    /\ LET event_id == (Len(tickets) \div 2) + 1
           capacity == event_capacities[event_id]
       IN  IF ga_lower(capacity) > ga_upper(capacity)
           THEN pc' = "ValueError" /\ tickets' = tickets
           ELSE \E ga_quantity \in ga_lower(capacity)..ga_upper(capacity) :
                LET remaining_capacity == capacity - ga_quantity IN
                IF vip_lower(remaining_capacity) > vip_upper(remaining_capacity)
                THEN pc' = "ValueError" /\ tickets' = tickets
                ELSE \E vip_quantity \in vip_lower(remaining_capacity)
                                            ..vip_upper(remaining_capacity),
                        ga_price \in GAPrices, vip_price \in VIPPrices :
                     /\ tickets' = tickets \o
                           <<Ticket(event_id, "General Admission", ga_price,
                                    ga_quantity),
                             Ticket(event_id, "VIP", vip_price, vip_quantity)>>
                     /\ pc' = pc
    /\ UNCHANGED <<app, derived, sinks, version, user_ids, event_capacities,
                   desired_count, registrations, attempts, tickets_remaining,
                   event_reg_totals, updated_tickets, payments>>

\* generate_tickets: return tickets
TicketsReturn ==
    /\ pc = "tickets"
    /\ Len(tickets) = 2 * Len(event_capacities)
    /\ pc' = "end"
    /\ UNCHANGED <<app, derived, sinks, version, user_ids, event_capacities,
                   tickets, desired_count, registrations, attempts,
                   tickets_remaining, event_reg_totals, updated_tickets,
                   payments>>

\* v2_data.py main when it calls generate_tickets for two events.
TicketInit ==
    /\ version = "v2"
    /\ user_ids = {}
    /\ event_capacities \in [{1, 2} -> TicketCapacities]
    /\ tickets = << >>
    /\ desired_count = 0
    /\ registrations = << >>
    /\ attempts = 0
    /\ tickets_remaining = EmptyDict
    /\ event_reg_totals = EmptyDict
    /\ updated_tickets = << >>
    /\ payments = << >>
    /\ pc = "tickets"
    /\ NoOutputs
    /\ SinksLeftOut
    /\ AppLeftOut

TicketNext ==
    \/ TicketsOfEvent
    \/ TicketsReturn

\* generate_tickets on every pair of capacities.
TicketSpec == TicketInit /\ [][TicketNext]_vars

\* ------------------------------------------------ main.py: the schema cache
\* MAX_CACHE_AGE = 3600  # 1 hour
MAX_CACHE_AGE == 3600

\* The text of the schema in a cache file left by an earlier session, and the
\* text fetch_fresh_schema builds from the database now.
CachedText == "cached schema"
FreshText == "fresh schema"

\* schema_cache.json as json.dump(schema_data, f) leaves it at time now: read
\* back, json.load gives the dict and the dict its "text".  A file of an older
\* format is returned whole; text is what get_db_schema returns from the file
\* either way.  readable: open(CACHE_FILE, 'r') and the read do not raise.
SchemaFile(now, text) ==
    [exists |-> TRUE, mtime |-> now, text |-> text, readable |-> TRUE]

\* The cache files a session can find: none, or one written a second before
\* or at time 0, which can be read or not.
CacheFiles ==
    {NoFile} \cup
    { [SchemaFile(mtime, CachedText) EXCEPT !.readable = r] :
        mtime \in {0, 1}, r \in BOOLEAN }

\* time.time() when get_db_schema is called: the file of time 0 or 1 is
\* younger than MAX_CACHE_AGE, exactly as old, or older.
CacheClocks == {MAX_CACHE_AGE - 1, MAX_CACHE_AGE, MAX_CACHE_AGE + 1}

\* Mutant of CacheFresh: a file exactly MAX_CACHE_AGE old is still used.
CacheFresh_Inclusive(now, mtime) == (now - mtime) <= MAX_CACHE_AGE

\* if (time.time() - stat.st_mtime) < MAX_CACHE_AGE
CacheFresh(now, mtime) == (now - mtime) < MAX_CACHE_AGE

\* What fetch_fresh_schema returns: the dict with the text, or None when
\* psycopg2.connect or a query raises.
FetchResults == {None, FreshText}

\* get_db_schema().  A fresh cache file is read and its text returned.
\* Without one the schema is fetched, and a fetched schema is written to the
\* cache file and returned.  When reading or writing the file raises, the
\* except clause fetches the schema (again) and returns its text or None.
GetDbSchema ==
    /\ pc = "schema"
    /\ IF cache.exists /\ CacheFresh(clock, cache.mtime)
       THEN IF cache.readable
            THEN /\ schema' = cache.text
                 /\ UNCHANGED <<cache, fetches>>
            ELSE \E again \in FetchResults :
                 /\ schema' = again
                 /\ fetches' = fetches + 1
                 /\ UNCHANGED cache
       ELSE \E schema_data \in FetchResults :
            IF schema_data = None
            THEN /\ schema' = None
                 /\ fetches' = fetches + 1
                 /\ UNCHANGED cache
            ELSE \E writable \in BOOLEAN :
                 IF writable
                 THEN /\ cache' = SchemaFile(clock, schema_data)
                      /\ schema' = schema_data
                      /\ fetches' = fetches + 1
                 ELSE \E again \in FetchResults :
                      /\ schema' = again
                      /\ fetches' = fetches + 2
                      /\ UNCHANGED cache
    /\ pc' = "connect"
    /\ UNCHANGED <<memory, derived, sinks, version, clock, seeded, users,
                   events, first_run, success_log, question, sql>>

\* ------------------------------------------------ main.py: the question loop
\* The most entries the log of a session of the model grows by.
MaxLogged == 2

\* What the user types at the prompt: a question one of the common_queries
\* answers, a question for the model, or exit.
CommonQuestion == "list users"
ModelQuestion == "how many events are there"
Lines == {CommonQuestion, ModelQuestion, "exit"}

\* common_queries["list users"]
CommonQuery == "SELECT * FROM users LIMIT 10;"

\* What generate_sql returns for the question: a statement, or nothing.
GeneratedSql == {None, "SELECT COUNT(*) FROM events;"}

\* main: if not schema: return.  Otherwise psycopg2.connect(**DB_CONFIG),
\* which raises into the outer except clause of main or gives the
\* connection of the loop.
MainConnect ==
    /\ pc = "connect"
    /\ IF schema = None
       THEN pc' = "end"
       ELSE \E connected \in BOOLEAN :
               pc' = IF connected THEN "prompt" ELSE "end"
    /\ UNCHANGED <<memory, derived, sinks, app, version>>

\* question = input(..).strip(): a line, and break on exit; or the user
\* presses Ctrl-C at the prompt.
Ask ==
    /\ pc = "prompt"
    /\ \/ \E line \in Lines :
            /\ line # "exit" => Len(success_log) < MaxLogged
            /\ question' = line
            /\ pc' = IF line = "exit" THEN "break" ELSE "generate"
       \/ /\ pc' = "cancelled"
          /\ UNCHANGED question
    /\ UNCHANGED <<memory, derived, sinks, version, clock, seeded, users,
                   events, first_run, cache, schema, fetches, success_log,
                   sql>>

\* sql = None, then the common query of the question or generate_sql(..),
\* which returns a statement or nothing, raises, or is interrupted.
Generate ==
    /\ pc = "generate"
    /\ IF question = CommonQuestion
       THEN sql' = CommonQuery /\ pc' = "execute"
       ELSE \/ \E generated \in GeneratedSql :
                  /\ sql' = generated
                  /\ pc' = IF generated = None THEN "failed_to_generate"
                           ELSE "execute"
            \/ sql' = None /\ pc' \in {"error", "cancelled"}
    /\ UNCHANGED <<memory, derived, sinks, version, clock, seeded, users,
                   events, first_run, cache, schema, fetches, success_log,
                   question>>

\* The entry main appends to SUCCESS_LOG.
LogEntry(asked, statement) == [question |-> asked, sql |-> statement]

\* Mutant of LogAfter: the entry is written before the statement is executed.
LogAfter_Always(log, asked, statement, executed) ==
    Append(log, LogEntry(asked, statement))

\* The log after cursor.execute(sql): the entry is appended in the try block
\* after the execution and the printing of the result, which the exception
\* of a failed execution skips.
LogAfter(log, asked, statement, executed) ==
    IF executed THEN Append(log, LogEntry(asked, statement)) ELSE log

\* if sql: cursor.execute(sql), the result is printed and the entry logged,
\* or the execution raises; or the user presses Ctrl-C while it runs.
Execute ==
    /\ pc = "execute"
    /\ \/ \E executed \in BOOLEAN :
            /\ success_log' = LogAfter(success_log, question, sql, executed)
            /\ pc' = IF executed THEN "prompt" ELSE "execution_error"
       \/ /\ pc' = "cancelled"
          /\ UNCHANGED success_log
    /\ UNCHANGED <<memory, derived, sinks, version, clock, seeded, users,
                   events, first_run, cache, schema, fetches, question, sql>>

\* The else branch ("Failed to generate SQL query"), the handler of the
\* execution ("SQL Execution Error", then cursor.close()) and the handler of
\* the iteration ("Error"): the loop goes on.
Continue ==
    /\ pc \in {"failed_to_generate", "execution_error", "error"}
    /\ pc' = "prompt"
    /\ UNCHANGED <<memory, derived, sinks, app, version>>

\* break, from the exit test or from the KeyboardInterrupt handler:
\* conn.close() and main returns.
Break ==
    /\ pc \in {"break", "cancelled"}
    /\ pc' = "end"
    /\ UNCHANGED <<memory, derived, sinks, app, version>>

\* main.py main when it calls get_db_schema.
AppInit ==
    /\ version = "main"
    /\ clock \in CacheClocks
    /\ cache \in CacheFiles
    /\ schema = None
    /\ fetches = 0
    /\ success_log = << >>
    /\ question = None
    /\ sql = None
    /\ seeded = [roles |-> << >>, choices |-> << >>]
    /\ users = << >>
    /\ events = << >>
    /\ first_run = [users |-> << >>, events |-> << >>]
    /\ pc = "schema"
    /\ MemoryLeftOut
    /\ SinksLeftOut

AppNext ==
    \/ GetDbSchema
    \/ MainConnect
    \/ Ask
    \/ Generate
    \/ Execute
    \/ Continue
    \/ Break

\* A session of main.py.
AppSpec == AppInit /\ [][AppNext]_vars

\* ------------------------------------------------------------------ claims

\* C1: in v2_data.py generate_registrations, after every draw (accepted or
\* discarded) no ticket's remaining inventory is negative and no event's
\* consumed capacity exceeds the event's capacity.
C1_LedgerWithinLimits ==
    version = "v2" =>
        /\ \A t \in DOMAIN tickets : tickets_remaining[t] >= 0
        /\ \A e \in event_ids : Get(event_reg_totals, e, 0) <= event_capacities[e]

\* A v2 run in which a draw was discarded and accepted draws have filled an
\* event to its capacity out of a ticket that still has inventory left.
C1_Witness ==
    /\ version = "v2"
    /\ attempts > Len(registrations)
    /\ \E e \in DOMAIN event_reg_totals :
          /\ event_reg_totals[e] = event_capacities[e]
          /\ \E t \in ticket_map(e) :
                /\ tickets_remaining[t] > 0
                /\ tickets_remaining[t] < tickets[t].quantity_available

\* C2: in v2_data.py, at every point of the loop and for the returned list,
\* the quantities of the registrations of an event sum to at most the
\* event's capacity.
C2_EventQuantityWithinCapacity ==
    version = "v2" =>
        \A e \in event_ids : EventQuantity(registrations, e) <= event_capacities[e]

\* A returned v2 list of two registrations of one event that fill it exactly,
\* while a ticket of that event still has inventory.
C2_Witness ==
    /\ version = "v2"
    /\ pc = "done"
    /\ \E e \in event_ids :
          /\ Len(registrations) = 2
          /\ \A i \in 1..Len(registrations) : registrations[i].event_id = e
          /\ EventQuantity(registrations, e) = event_capacities[e]
          /\ \E t \in ticket_map(e) : tickets_remaining[t] > 0

\* C3 (as claimed): in the data.py pipeline the quantities of the
\* registrations of an event never sum to more than the capacity stored in
\* the event record.
C3_DataEventQuantityWithinCapacity ==
    version = "data" =>
        \A e \in event_ids : EventQuantity(registrations, e) <= event_capacities[e]

\* C4: after the reconciliation step of either main, every ticket's
\* quantity_sold lies in 0..quantity_available, equals quantity_available
\* minus the ledger's remaining inventory, and equals the summed quantity of
\* the registrations of that ticket.
C4_ReconciledSold ==
    pc \in {"payments", "done"} =>
        /\ DOMAIN updated_tickets = DOMAIN tickets
        /\ \A t \in DOMAIN tickets :
              LET u == updated_tickets[t] IN
              /\ u.quantity_available = tickets[t].quantity_available
              /\ 0 <= u.quantity_sold
              /\ u.quantity_sold <= u.quantity_available
              /\ u.quantity_sold = u.quantity_available - tickets_remaining[t]
              /\ u.quantity_sold = TicketQuantity(registrations, t)

\* A reconciled run in which one ticket is sold out and another stocked
\* ticket has sold nothing.
C4_Witness ==
    /\ pc = "done"
    /\ \E t, u \in DOMAIN updated_tickets :
          /\ updated_tickets[t].quantity_available > 0
          /\ updated_tickets[t].quantity_sold = updated_tickets[t].quantity_available
          /\ updated_tickets[u].quantity_available > 0
          /\ updated_tickets[u].quantity_sold = 0

\* C5: every registration's ticket is a ticket of the registration's own event.
C5_TicketOfOwnEvent ==
    \A i \in 1..Len(registrations) :
        /\ registrations[i].ticket_id \in DOMAIN tickets
        /\ tickets[registrations[i].ticket_id].event_id = registrations[i].event_id

\* Two registrations of two different events, each event with its own ticket.
C5_Witness ==
    /\ Len(registrations) = 2
    /\ registrations[1].event_id # registrations[2].event_id
    /\ registrations[1].ticket_id # registrations[2].ticket_id

\* C6: every registration emitted by v2_data.py has a quantity from 1 to
\* min(5, the ticket's inventory before the draw, the event's remaining
\* capacity before the draw); no registration has quantity 0 or less.
C6_QuantityWithinDrawLimits ==
    /\ [][(version = "v2" /\ Len(registrations') = Len(registrations) + 1) =>
            LET r == registrations'[Len(registrations')] IN
            /\ r.quantity >= 1
            /\ r.quantity <= MaxPerRegistration
            /\ r.quantity <= tickets_remaining[r.ticket_id]
            /\ r.quantity <= event_capacities[r.event_id]
                                - Get(event_reg_totals, r.event_id, 0)]_vars
    /\ [](version = "v2" =>
            \A i \in 1..Len(registrations) : registrations[i].quantity >= 1)

\* A v2 run whose first draw took 5 (the literal is the limit: ticket and
\* event both allow more) and whose second draw took the one unit the
\* ticket had left while the event still had room for more.
C6_Witness ==
    /\ version = "v2"
    /\ Len(registrations) = 2
    /\ registrations[1].quantity = MaxPerRegistration
    /\ registrations[2].quantity = 1
    /\ registrations[2].ticket_id = registrations[1].ticket_id
    /\ tickets_remaining[registrations[2].ticket_id] = 0
    /\ event_reg_totals[registrations[2].event_id]
          < event_capacities[registrations[2].event_id]

\* C7: the registration loop terminates; every iteration adds exactly one to
\* attempts and at most one registration; attempts never exceeds 10 * N and
\* the count never exceeds N; the loop is left only with the count at N or
\* attempts at 10 * N.
C7_LoopTerminates ==
    /\ [][(pc = "registrations" /\ pc' = "registrations") =>
            /\ attempts' = attempts + 1
            /\ \/ registrations' = registrations
               \/ /\ Len(registrations') = Len(registrations) + 1
                  /\ SubSeq(registrations', 1, Len(registrations)) = registrations]_vars
    /\ [](/\ attempts <= AttemptFactor * desired_count
          /\ Len(registrations) <= desired_count)
    /\ [][(pc = "registrations" /\ pc' # "registrations") =>
            \/ Len(registrations) = desired_count
            \/ attempts = AttemptFactor * desired_count]_vars
    /\ <>(pc # "registrations")

\* The loop is about to be left on the attempt budget, short of the target.
C7_Witness ==
    /\ pc = "registrations"
    /\ attempts = AttemptFactor * desired_count
    /\ Len(registrations) > 0
    /\ Len(registrations) < desired_count

\* The inputs of the example of C8.
ScenarioInputs ==
    /\ desired_count = 5
    /\ event_capacities = <<3>>
    /\ tickets = ScenarioTickets

\* C8: v2_data.py generate_registrations never raises and never emits more
\* registrations than the sum over the events of min(capacity, inventory of
\* the event's tickets); on the example (target 5, budget 50, capacity 3,
\* one ticket of 3) at most 3 registrations are emitted and their
\* quantities sum to at most 3.
C8_UnderFulfilment ==
    version = "v2" =>
        /\ pc # "ValueError"
        /\ Len(registrations) <= SupportedQuantity(event_ids)
        /\ ScenarioInputs =>
              /\ Len(registrations) <= 3
              /\ SumQuantity(registrations) <= 3

\* The example run to its end: three registrations of one unit each, two
\* short of the target, returned without an error.
C8_Witness ==
    /\ version = "v2"
    /\ ScenarioInputs
    /\ pc = "done"
    /\ Len(registrations) = 3
    /\ SumQuantity(registrations) = 3

\* The positions of the paid registrations.
PaidPositions ==
    {i \in 1..Len(registrations) : registrations[i].payment_status = "paid"}

\* C9: every payment refers to a position of the registration list, the
\* registration there is paid, and the payment carries that registration's
\* user_id and total_amount.
C9_PaymentOfPaidRegistration ==
    \A k \in 1..Len(payments) :
        /\ payments[k].registration_id \in 1..Len(registrations)
        /\ LET reg == registrations[payments[k].registration_id] IN
           /\ reg.payment_status = "paid"
           /\ payments[k].user_id = reg.user_id
           /\ payments[k].amount = reg.total_amount

\* Payments derived from a list that starts with an unpaid registration and
\* holds paid registrations of two users and of two amounts.
C9_Witness ==
    /\ pc = "done"
    /\ Len(payments) = 2
    /\ registrations[1].payment_status = "unpaid"
    /\ payments[1].user_id # payments[2].user_id
    /\ payments[1].amount # payments[2].amount

\* C10: generate_payments selects exactly the first min(cap, P) paid
\* registrations in list order: the k-th payment refers to the k-th paid
\* registration, registration_ids increase strictly, and no registration is
\* referred to twice.
C10_FirstPaidInOrder ==
    pc = "done" =>
        /\ Len(payments) = Min(PaymentCap, Cardinality(PaidPositions))
        /\ \A k \in 1..Len(payments) :
              /\ payments[k].registration_id \in PaidPositions
              /\ Cardinality({j \in PaidPositions : j <= payments[k].registration_id}) = k
        /\ \A k, l \in 1..Len(payments) :
              k < l => payments[k].registration_id < payments[l].registration_id

\* More paid registrations than the cap: the payments stop at the cap.
C10_Witness ==
    /\ pc = "done"
    /\ Cardinality(PaidPositions) > PaymentCap
    /\ Len(payments) = PaymentCap

\* C11: the total_amount of every registration is its quantity times the
\* price of its ticket, whichever float the product came out as, and a
\* payment carries the total_amount of the registration it was selected for.
C11_TotalAmountIsProduct ==
    /\ \A i \in 1..Len(registrations) :
          LET reg == registrations[i]
              exact == reg.quantity * ticket_prices(reg.ticket_id)
          IN  /\ TotalAmounts(reg.quantity, ticket_prices(reg.ticket_id)) = {exact}
              /\ reg.total_amount = exact
    /\ \A k \in 1..Len(payments) :
          LET reg == registrations[payments[k].registration_id] IN
          payments[k].amount = reg.quantity * ticket_prices(reg.ticket_id)

\* The example of the claim: quantity 2 of a ticket priced 25.00 gives
\* 50.00, and the payment selected for that registration has amount 50.00.
C11_Witness ==
    /\ pc = "done"
    /\ \E k \in 1..Len(payments) :
          LET reg == registrations[payments[k].registration_id] IN
          /\ reg.quantity = 2
          /\ ticket_prices(reg.ticket_id) = 2500
          /\ reg.total_amount = 5000
          /\ payments[k].amount = 5000

\* The confirmations among the notifications, in order.
Confirmations == SelectSeq(notifications, LAMBDA n : n.message = "confirmed")

\* The position of the registration the j-th notification was appended for:
\* every registration appends its confirmation first.
SourceOf(j) ==
    Cardinality({i \in 1..j : notifications[i].message = "confirmed"})

\* C12: generate_notifications emits, for each registration in order, one
\* confirmation ('sent' if the registration is paid, 'pending' otherwise),
\* followed by at most one reminder ('pending', sent_at None); n
\* registrations give between n and 2n notifications, each with the user_id
\* and event_id of its registration.
C12_NotificationsPerRegistration ==
    pc \in {"feedback", "end"} =>
        /\ Len(Confirmations) = Len(registrations)
        /\ \A i \in 1..Len(registrations) :
              /\ Confirmations[i].user_id = registrations[i].user_id
              /\ Confirmations[i].event_id = registrations[i].event_id
              /\ Confirmations[i].status =
                    IF registrations[i].payment_status = "paid"
                    THEN "sent" ELSE "pending"
        /\ \A j \in 1..Len(notifications) :
              notifications[j].message = "reminder" =>
                 /\ j > 1
                 /\ notifications[j - 1].message = "confirmed"
                 /\ notifications[j].user_id = notifications[j - 1].user_id
                 /\ notifications[j].event_id = notifications[j - 1].event_id
                 /\ notifications[j].status = "pending"
                 /\ notifications[j].sent_at = "None"
        /\ Len(notifications) >= Len(registrations)
        /\ Len(notifications) <= 2 * Len(registrations)

\* A run of generate_notifications over a paid and an unpaid registration of
\* different users and events, one of them with a reminder and one without.
C12_Witness ==
    /\ pc \in {"feedback", "end"}
    /\ Len(registrations) >= 2
    /\ Len(notifications) > Len(registrations)
    /\ Len(notifications) < 2 * Len(registrations)
    /\ \E i, j \in 1..Len(registrations) :
          /\ registrations[i].payment_status = "paid"
          /\ registrations[j].payment_status = "unpaid"
          /\ registrations[i].user_id # registrations[i].event_id

\* C13 as stated: every notification has status 'sent' exactly when the
\* registration it was derived from is paid.
C13_StatusFollowsPayment ==
    \A j \in 1..Len(notifications) :
        notifications[j].status = "sent"
            <=> registrations[SourceOf(j)].payment_status = "paid"

\* C13, amended: every confirmation has status 'sent' exactly when its
\* registration is paid, and every reminder has status 'pending', paid or not.
C13_ConfirmationFollowsPayment ==
    \A j \in 1..Len(notifications) :
        IF notifications[j].message = "confirmed"
        THEN notifications[j].status = "sent"
                <=> registrations[SourceOf(j)].payment_status = "paid"
        ELSE notifications[j].status = "pending"

\* A paid registration whose confirmation was sent and whose reminder is
\* pending.
C13_Witness ==
    \E j \in 2..Len(notifications) :
        /\ notifications[j].message = "reminder"
        /\ notifications[j].status = "pending"
        /\ notifications[j - 1].status = "sent"
        /\ registrations[SourceOf(j)].payment_status = "paid"

\* C14: the feedback records are, in order, those of some of the paid
\* registrations, at most one each, with that registration's event_id and
\* user_id and a rating from 1 to 5; unpaid registrations give none.
C14_FeedbackOfPaidRegistrations ==
    /\ \E given \in SUBSET PaidPositions :
          LET source == SelectSeq([i \in 1..Len(registrations) |-> i],
                                  LAMBDA i : i \in given)
          IN  /\ Len(source) = Len(feedback)
              /\ \A k \in 1..Len(feedback) :
                    /\ feedback[k].event_id = registrations[source[k]].event_id
                    /\ feedback[k].user_id = registrations[source[k]].user_id
    /\ \A k \in 1..Len(feedback) : feedback[k].rating \in 1..5
    /\ Len(feedback) <= Cardinality(PaidPositions)

\* A run of generate_feedback in which one paid registration gave feedback,
\* another paid one gave none, and an unpaid one is in the list.
C14_Witness ==
    /\ pc = "waitlists"
    /\ Len(feedback) = 1
    /\ Cardinality(PaidPositions) = 2
    /\ Len(registrations) = 3
    /\ feedback[1].rating = 5

\* The waitlist entries of event e, in order.
WaitlistOf(e) == SelectSeq(waitlists, LAMBDA w : w.event_id = e)

\* C15: every waitlist entry is of an event whose registrations sum to at
\* least the event's capacity; an event below its capacity, one without
\* registrations included, has no entry.
C15_WaitlistOnlyWhenSoldOut ==
    /\ \A k \in 1..Len(waitlists) :
          EventQuantity(registrations, waitlists[k].event_id)
              >= event_capacities[waitlists[k].event_id]
    /\ \A e \in event_ids :
          EventQuantity(registrations, e) < event_capacities[e]
              => WaitlistOf(e) = << >>

\* A run of generate_waitlists with a sold-out event that was given a
\* waitlist and an event without registrations that was given none.
C15_Witness ==
    /\ pc = "end"
    /\ \E e, f \in event_ids :
          /\ EventQuantity(registrations, e) = event_capacities[e]
          /\ WaitlistOf(e) # << >>
          /\ EventQuantity(registrations, f) = 0
          /\ WaitlistOf(f) = << >>

\* C16: generate_waitlists never raises, and for every event whose
\* registrations sum to at least its capacity it emits k entries of pairwise
\* distinct users taken from user_ids, where U = len(user_ids) and
\* min(min_waitlist, U) <= k <= min(max_waitlist, U).
C16_WaitlistSize ==
    /\ pc # "ValueError"
    /\ pc = "end" =>
          \A e \in event_ids :
            EventQuantity(registrations, e) >= event_capacities[e] =>
              LET entries == WaitlistOf(e)
                  U == Cardinality(user_ids)
              IN  /\ Len(entries) >= Min(MinWaitlist, U)
                  /\ Len(entries) <= Min(MaxWaitlist, U)
                  /\ \A i \in 1..Len(entries) : entries[i].user_id \in user_ids
                  /\ \A i, j \in 1..Len(entries) :
                        i # j => entries[i].user_id # entries[j].user_id

\* A run of generate_waitlists with fewer users than the smallest waitlist
\* and a sold-out event: every user is on the event's waitlist.
C16_Witness ==
    /\ pc = "end"
    /\ Cardinality(user_ids) < MinWaitlist
    /\ \E e \in event_ids :
          /\ EventQuantity(registrations, e) >= event_capacities[e]
          /\ Len(WaitlistOf(e)) = Cardinality(user_ids)
          /\ Len(WaitlistOf(e)) > 0

\* C17: when a run of data.py main that started on an empty store and an
\* empty csv directory has ended, csv/tickets.csv holds for every ticket the
\* reconciled quantity_sold (quantity_available - remaining), as the tickets
\* table of the store does.
C17_TicketsCsvReconciled ==
    (run = 1 /\ pc = "end") =>
        /\ files["tickets"].exists
        /\ Len(files["tickets"].rows) = Len(tickets)
        /\ Len(store["tickets"]) = Len(tickets)
        /\ \A t \in DOMAIN tickets :
              /\ files["tickets"].rows[t].quantity_sold =
                    tickets[t].quantity_available - tickets_remaining[t]
              /\ files["tickets"].rows[t].quantity_sold =
                    store["tickets"][t].quantity_sold

\* C19: without force, no step of main changes a table that holds rows
\* (the UPDATE of the tickets apart, which is not batch_insert) or a file
\* that exists, and no step of a second run changes any table or file.
C19_UnforcedSinksIdempotent ==
    [][ ~force =>
          /\ \A t \in TableNames : files[t].exists => files'[t] = files[t]
          /\ pc # "update_tickets" =>
                \A t \in TableNames : Len(store[t]) > 0 => store'[t] = store[t]
          /\ run = 2 => UNCHANGED <<store, files>> ]_vars

\* A second run without force has ended, after a first run without force on
\* a store that had no users: that run inserted its users, and its
\* batch_insert left the ticket the store had alone.
C19_Witness ==
    /\ run = 2
    /\ ~force
    /\ pc = "end"
    /\ Len(store["users"]) = 2
    /\ Len(store["tickets"]) = 1
    /\ files["tickets"].exists

\* C20: with force, batch_insert leaves in the table the rows of data and
\* no others, and write_to_csv leaves in the file the header and the rows of
\* data, whatever the table and the file held.
C20_ForcedSinksOverwrite ==
    [][ \A t \in TableNames :
          (force /\ pc = t) =>
             /\ store'[t] = RowsOf(t)'
             /\ files'[t] = CsvFile(t, RowsOf(t)') ]_vars

\* C18: in the output of v2_data.py main every ticket is one row: the
\* statements of the file main has written insert as many rows into tickets
\* as there are tickets, the reconciliation having replaced quantity_sold
\* and added no row.
C18_TicketRowsWrittenOnce ==
    (pc = "end" /\ files[SqlFilename] = SqlFile(sql_content)) =>
        RowsInserted(files[SqlFilename].statements, "tickets") = Len(tickets)
\* ------------------------------------------------------------------- C21
\* C21: the export of a csv file is skipped only for the file's existence
\* and the force flag, whatever the store holds: when an unforced run of
\* data.py on a store with rows in every table has ended, every csv file
\* exists, the missing ones having been written.
C21_MissingCsvWritten ==
    (/\ pc = "end"
     /\ ~force
     /\ \A t \in TableNames : Len(store[t]) > 0)
        => \A t \in TableNames : files[t].exists

\* ------------------------------------------------------------------- C22
\* C22: create_connection makes at most max_attempts = 5 attempts: a failed
\* attempt is counted and is at most the fifth, the attempt that succeeds is
\* at most the fifth and is the last of the run, the exception is raised
\* after exactly five failures, and from the first attempt to the exception
\* nothing is generated and neither the store nor a file is written.
C22_ConnectionAttempts ==
    [][ /\ (pc = "connect" /\ pc' = "connect") =>
              attempts' = attempts + 1 /\ attempts' <= max_attempts
        /\ (pc = "connect" /\ pc' = "check") => attempts < max_attempts
        /\ (pc = "connect" /\ pc' = "Exception") => attempts = max_attempts
        /\ (pc # "connect" /\ pc' = "connect") => run' = run + 1
        /\ pc \in {"connect", "Exception"} =>
              /\ UNCHANGED <<store, files>>
              /\ user_ids' = {}
              /\ event_capacities' = << >>
              /\ tickets' = << >>
              /\ registrations' = << >>
              /\ payments' = << >>
              /\ notifications' = << >> ]_vars

\* The first run found an empty store and no file, failed to connect five
\* times and has raised.
C22_Witness ==
    /\ pc = "Exception"
    /\ run = 1
    /\ attempts = max_attempts
    /\ \A t \in TableNames : store[t] = << >> /\ ~files[t].exists
\* ------------------------------------------------------------------- C23
\* C23: two runs with the same seed produce the same tables, whatever the
\* time of each run: when the second run has ended, its users and its events
\* are those of the first run.
C23_SameSeedSameTables ==
    (run = 2 /\ pc = "end") =>
        users = first_run.users /\ events = first_run.events

\* ------------------------------------------------------------------- C24
\* C24: generate_events never fails for lack of an organizer, the list of
\* organizers it is given is never empty, and the organizer_id of every
\* event is the 1-based position of a user who is organizer or admin.
C24_OrganizerOfEveryEvent ==
    /\ pc # "IndexError"
    /\ pc = "events" => organizer_ids(users) # << >>
    /\ \A e \in 1..Len(events) :
          /\ events[e].organizer_id \in 1..Len(users)
          /\ users[events[e].organizer_id].role \in {"organizer", "admin"}

\* Every event has its organizer, two of them different ones, one an admin
\* from the second round of the role list.
C24_Witness ==
    /\ pc = "end"
    /\ Len(events) = EventCount
    /\ \E e, f \in 1..Len(events) :
          /\ events[e].organizer_id # events[f].organizer_id
          /\ users[events[f].organizer_id].role = "admin"
          /\ events[f].organizer_id > Len(RoleList)
\* ------------------------------------------------------------------- C25
\* The draw of ticket_id for event_id is discarded: the event has no ticket,
\* the ticket has no inventory left or the event has no capacity left.
DiscardedDraw(event_id, ticket_id) ==
    \/ ticket_map(event_id) = {}
    \/ SoldOut(Get(tickets_remaining, ticket_id, 0))
    \/ EventFull(event_capacities[event_id] - Get(event_reg_totals, event_id, 0))

\* C25: in v2_data.py generate_registrations a discarded draw leaves
\* tickets_remaining, event_reg_totals and the registration list unchanged
\* and adds one to attempts: every iteration either does exactly that, or
\* appends a registration whose draw was none of the discarded ones.
C25_DiscardedDrawFrame ==
    [][ (version = "v2" /\ pc = "registrations" /\ LoopCondition) =>
          \/ /\ attempts' = attempts + 1
             /\ UNCHANGED <<registrations, tickets_remaining, event_reg_totals>>
          \/ /\ Len(registrations') = Len(registrations) + 1
             /\ LET r == registrations'[Len(registrations')] IN
                   ~DiscardedDraw(r.event_id, r.ticket_id) ]_vars

\* Three draws of a v2 run have been discarded and none accepted: no event
\* has a ticket with inventory.
C25_Witness ==
    /\ version = "v2"
    /\ pc = "registrations"
    /\ registrations = << >>
    /\ attempts = 3
    /\ tickets_remaining = [t \in DOMAIN tickets |-> tickets[t].quantity_available]
    /\ event_reg_totals = EmptyDict
    /\ \A e \in event_ids, t \in DOMAIN tickets : DiscardedDraw(e, t)

\* ------------------------------------------------------------------- C26
\* What the ledger says was sold of the tickets of the set S.
RECURSIVE TicketsSold(_)
TicketsSold(S) ==
    IF S = {} THEN 0
    ELSE LET t == CHOOSE x \in S : TRUE IN
         (tickets[t].quantity_available - tickets_remaining[t])
            + TicketsSold(S \ {t})

\* C26: an accepted draw of v2_data.py generate_registrations takes its
\* quantity from its ticket's inventory and adds it to its event's total and
\* touches no other entry; so at every point, for every event, the total of
\* event_reg_totals is what the event's tickets have sold and is the summed
\* quantity of the event's registrations, and
\* calculate_total_registrations(registrations) gives that same total.
C26_LedgersAgree ==
    /\ [][(version = "v2" /\ Len(registrations') = Len(registrations) + 1) =>
            LET r == registrations'[Len(registrations')] IN
            /\ tickets_remaining' =
                  [tickets_remaining EXCEPT ![r.ticket_id] = @ - r.quantity]
            /\ event_reg_totals' =
                  Put(event_reg_totals, r.event_id,
                      Get(event_reg_totals, r.event_id, 0) + r.quantity)]_vars
    /\ [](version = "v2" =>
            \A e \in event_ids :
                LET total == Get(event_reg_totals, e, 0) IN
                /\ total = TicketsSold(ticket_map(e))
                /\ total = EventQuantity(registrations, e)
                /\ total = Get(calculate_total_registrations(registrations), e, 0))

\* A returned v2 list that sold different quantities of the two tickets of
\* one event, the other event having sold nothing.
C26_Witness ==
    /\ version = "v2"
    /\ pc = "done"
    /\ Len(registrations) = 2
    /\ registrations[1].event_id = registrations[2].event_id
    /\ registrations[1].ticket_id # registrations[2].ticket_id
    /\ registrations[1].quantity # registrations[2].quantity
    /\ event_reg_totals[registrations[1].event_id]
          = registrations[1].quantity + registrations[2].quantity
\* ------------------------------------------------------------------- C27
\* C27: for every capacity from 0 on, generate_tickets never raises (no
\* random.randint range is empty) and gives every event two tickets, the
\* General Admission one and then the VIP one, neither with a negative
\* quantity_available and the two together with no more than the capacity.
C27_TwoTicketsWithinCapacity ==
    /\ pc # "ValueError"
    /\ Len(tickets) % 2 = 0
    /\ pc = "end" => Len(tickets) = 2 * Len(event_capacities)
    /\ \A e \in 1..(Len(tickets) \div 2) :
          LET ga == tickets[2 * e - 1]
              vip == tickets[2 * e]
          IN  /\ ga.event_id = e /\ ga.ticket_type = "General Admission"
              /\ vip.event_id = e /\ vip.ticket_type = "VIP"
              /\ ga.quantity_available >= 0
              /\ vip.quantity_available >= 0
              /\ ga.quantity_available + vip.quantity_available
                    <= event_capacities[e]

\* generate_tickets has returned the tickets of an event without capacity,
\* both empty, and of a large event, both at their upper limits and short of
\* the capacity.
C27_Witness ==
    /\ pc = "end"
    /\ event_capacities[1] = 0
    /\ tickets[1].quantity_available = 0
    /\ tickets[2].quantity_available = 0
    /\ tickets[3].quantity_available = GaUpperCap
    /\ tickets[4].quantity_available = VipUpperCap
    /\ event_capacities[2] > GaUpperCap + VipUpperCap
\* ------------------------------------------------------------------- C28
\* C28: the stages generate_payments, generate_notifications,
\* generate_feedback and generate_waitlists (with
\* calculate_total_registrations) of v2_data.py main leave the registration
\* list, tickets_remaining, event_reg_totals and event_capacities as they
\* are, and each leaves the outputs of the other three as they are.
C28_DerivedStagesFrame ==
    [][ /\ pc \in {"payments", "notifications", "feedback", "waitlists"} =>
              UNCHANGED <<registrations, tickets_remaining, event_reg_totals,
                          event_capacities>>
        /\ pc = "payments" => UNCHANGED <<notifications, feedback, waitlists>>
        /\ pc = "notifications" => UNCHANGED <<payments, feedback, waitlists>>
        /\ pc = "feedback" => UNCHANGED <<payments, notifications, waitlists>>
        /\ pc = "waitlists" => UNCHANGED <<payments, notifications, feedback>>
      ]_vars

\* The four stages have run on an unpaid registration that has sold its
\* event out: no payment and no feedback, a notification and a waitlist, the
\* ledgers still holding what the registration took.
C28_Witness ==
    /\ pc = "write"
    /\ Len(registrations) = 1
    /\ registrations[1].payment_status = "unpaid"
    /\ payments = << >>
    /\ notifications # << >>
    /\ waitlists # << >>
    /\ event_reg_totals[1] = event_capacities[1]
    /\ tickets_remaining[registrations[1].ticket_id]
          < tickets[registrations[1].ticket_id].quantity_available
\* ------------------------------------------------------------------- C29
\* C29 (as claimed): when schema_cache.json exists and is less than 3600
\* seconds old, get_db_schema returns the cached text and does not contact
\* the database; otherwise it fetches the schema, rewrites the cache file
\* only with a fetched schema, and a failed fetch returns None and leaves the
\* cache file as it is.
C29_CacheOrFetch ==
    [][ pc = "schema" =>
          IF cache.exists /\ clock - cache.mtime < MAX_CACHE_AGE
          THEN /\ schema' = cache.text
               /\ fetches' = fetches
               /\ cache' = cache
          ELSE /\ fetches' > fetches
               /\ schema' = None => cache' = cache
               /\ cache' # cache =>
                     schema' # None /\ cache' = SchemaFile(clock, schema') ]_vars

\* C29 (amended): the same where the fresh cache file can be read; where
\* reading it raises, the schema is fetched once, its text or None is
\* returned and the cache file is left as it is.
C29_ReadableCacheOrFetch ==
    [][ pc = "schema" =>
          IF cache.exists /\ clock - cache.mtime < MAX_CACHE_AGE
          THEN IF cache.readable
               THEN /\ schema' = cache.text
                    /\ fetches' = fetches
                    /\ cache' = cache
               ELSE /\ schema' \in {None, FreshText}
                    /\ fetches' = fetches + 1
                    /\ cache' = cache
          ELSE /\ fetches' > fetches
               /\ schema' = None => cache' = cache
               /\ cache' # cache =>
                     schema' # None /\ cache' = SchemaFile(clock, schema') ]_vars

\* get_db_schema has returned the text of a cache file one second short of
\* MAX_CACHE_AGE without a fetch.
C29_Witness ==
    /\ pc = "connect"
    /\ cache.exists
    /\ clock - cache.mtime = MAX_CACHE_AGE - 1
    /\ schema = CachedText
    /\ fetches = 0

====
